---- MODULE Spec2Model ----
(***************************************************************************)
(* Model of the TypeScript structural extractor (typescript_extractor) and *)
(* of its parser cache.  Source text is a sequence of lines (one top-level *)
(* statement per line), a syntax tree is a nested record of nodes with     *)
(* (row, column) points, and the extractors are operators over such trees. *)
(***************************************************************************)
EXTENDS Integers, Sequences, FiniteSets, TLC

VARIABLES files, pc, args, parsed_files, result, reads, raised, error_log, driver

vars == <<files, pc, args, parsed_files, result, reads, raised, error_log, driver>>

(***************************************************************************)
(* Bounds of the model.                                                    *)
(***************************************************************************)
\* longest file, in top-level statements
MaxChildren == 2
\* most top-level children whose processing raises during one walk
MaxRaises == 1
\* latest point, in records already appended, at which a child raises
MaxRaiseStep == 1

(***************************************************************************)
(* Optional values: None is the empty sequence, Some(x) a singleton.       *)
(***************************************************************************)
None == <<>>
Some(x) == <<x>>

Min(S) == CHOOSE m \in S : \A n \in S : m <= n

(***************************************************************************)
(* Syntax shapes: the tree the parsing library builds for a statement,     *)
(* before it is given a position.  A leaf carries its text; an inner node  *)
(* carries its children, which the source separates by one blank.          *)
(***************************************************************************)
Leaf(ty, tx) == [type |-> ty, field |-> "", text |-> tx, kids |-> <<>>]
Tok(tx) == Leaf(tx, tx)
Id(tx) == Leaf("identifier", tx)
TypeId(tx) == Leaf("type_identifier", tx)
PropId(tx) == Leaf("property_identifier", tx)
Str(tx) == Leaf("string", tx)
Nd(ty, kids) == [type |-> ty, field |-> "", text |-> "", kids |-> kids]
Fld(f, s) == [s EXCEPT !.field = f]

RECURSIVE JoinText(_)
JoinText(nodes) ==
    IF nodes = <<>> THEN ""
    ELSE IF Len(nodes) = 1 THEN nodes[1].text
    ELSE nodes[1].text \o " " \o JoinText(Tail(nodes))

RECURSIVE Place(_, _, _), PlaceKids(_, _, _)
PlaceKids(kids, row, col) ==
    IF kids = <<>> THEN <<>>
    ELSE LET h == Place(Head(kids), row, col)
         IN  <<h>> \o PlaceKids(Tail(kids), row, h.end_point[2] + 1)

Place(s, row, col) ==
    IF s.kids = <<>>
    THEN [type |-> s.type, field |-> s.field, text |-> s.text,
          start_point |-> <<row, col>>,
          end_point |-> <<row, col + Len(s.text)>>,
          children |-> <<>>]
    ELSE LET ks == PlaceKids(s.kids, row, col)
         IN  [type |-> s.type, field |-> s.field, text |-> JoinText(ks),
              start_point |-> ks[1].start_point,
              end_point |-> ks[Len(ks)].end_point,
              children |-> ks]

(***************************************************************************)
(* Statement shapes.                                                       *)
(***************************************************************************)
Params == Fld("parameters", Nd("formal_parameters", <<Tok("("), Tok(")")>>))
Body == Fld("body", Nd("statement_block", <<Tok("{"), Tok("}")>>))
FromM(m) == <<Tok("from"), Fld("source", Str(m)), Tok(";")>>

ISpec1(n) == Nd("import_specifier", <<Fld("name", Id(n))>>)
ISpec2(n, a) == Nd("import_specifier", <<Fld("name", Id(n)), Tok("as"), Fld("alias", Id(a))>>)
ISpecDefault(a) == Nd("import_specifier", <<Fld("name", Tok("default")), Tok("as"), Fld("alias", Id(a))>>)
ImportStmt(clauseKids, m) ==
    Nd("import_statement", <<Tok("import"), Nd("import_clause", clauseKids)>> \o FromM(m))
NamedImports(specs) == Nd("named_imports", <<Tok("{")>> \o specs \o <<Tok("}")>>)

ESpec1(n) == Nd("export_specifier", <<Fld("name", Id(n))>>)
ESpec2(n, a) == Nd("export_specifier", <<Fld("name", Id(n)), Tok("as"), Fld("alias", Id(a))>>)
ESpecToDefault(n) == Nd("export_specifier", <<Fld("name", Id(n)), Tok("as"), Fld("alias", Tok("default"))>>)
ESpecToString(n, a) == Nd("export_specifier", <<Fld("name", Id(n)), Tok("as"), Fld("alias", Str(a))>>)
ESpecDefault == Nd("export_specifier", <<Fld("name", Tok("default"))>>)
ExportClause(specs) == Nd("export_clause", <<Tok("{")>> \o specs \o <<Tok("}")>>)

FunctionDecl(n, bodyKids) ==
    Nd("function_declaration",
       <<Tok("function"), Fld("name", Id(n)), Params,
         Fld("body", Nd("statement_block", <<Tok("{")>> \o bodyKids \o <<Tok("}")>>))>>)
CallExpr(f, m) ==
    Fld("value", Nd("call_expression",
        <<Fld("function", Id(f)),
          Fld("arguments", Nd("arguments", <<Tok("("), Str(m), Tok(")")>>))>>))
Arrow == Fld("value", Nd("arrow_function", <<Params, Tok("=>"), Body>>))
FunctionExpr(inner) ==
    Fld("value", Nd("function_expression", <<Tok("function"), Fld("name", Id(inner)), Params, Body>>))
Declarator(nameShape, valueShape) ==
    Nd("variable_declarator", <<Fld("name", nameShape), Tok("="), valueShape>>)
Lexical(declarators) ==
    Nd("lexical_declaration", <<Tok("const")>> \o declarators \o <<Tok(";")>>)

Method(mods, nameShape) ==
    Nd("method_definition", mods \o <<Fld("name", nameShape), Params, Body>>)
Private == Leaf("accessibility_modifier", "private")
Public == Leaf("accessibility_modifier", "public")
ClassBody(members) == Fld("body", Nd("class_body", <<Tok("{")>> \o members \o <<Tok("}")>>))
ClassDecl(n, members) ==
    Nd("class_declaration", <<Tok("class"), Fld("name", TypeId(n)), ClassBody(members)>>)
AbstractClassDecl(n, members) ==
    Nd("abstract_class_declaration",
       <<Tok("abstract"), Tok("class"), Fld("name", TypeId(n)), ClassBody(members)>>)
InterfaceDecl(n) ==
    Nd("interface_declaration",
       <<Tok("interface"), Fld("name", TypeId(n)),
         Fld("body", Nd("interface_body", <<Tok("{"), Tok("}")>>))>>)
TypeAliasDecl(n) ==
    Nd("type_alias_declaration",
       <<Tok("type"), Fld("name", TypeId(n)), Tok("="),
         Fld("value", Leaf("predefined_type", "string")), Tok(";")>>)
EnumDecl(n) ==
    Nd("enum_declaration",
       <<Tok("enum"), Fld("name", Id(n)),
         Fld("body", Nd("enum_body", <<Tok("{"), PropId("Red"), Tok("}")>>))>>)
Export(kids) == Nd("export_statement", <<Tok("export")>> \o kids)

MembersA ==
    <<Method(<<>>, PropId("constructor")),
      Method(<<Tok("static")>>, PropId("create")),
      Method(<<Private, Tok("async")>>, PropId("fetchX"))>>
MembersB ==
    <<Method(<<Tok("get")>>, PropId("v")),
      Method(<<Tok("set")>>, PropId("v")),
      Method(<<>>, Leaf("private_property_identifier", "#secret")),
      Method(<<>>, PropId("get")),
      Method(<<>>, Str("'lit'")),
      Method(<<Public, Tok("static")>>, PropId("constructor"))>>

(***************************************************************************)
(* The catalog of top-level statements files are made of.                  *)
(***************************************************************************)
Catalog ==
    << \* 1..7: import statements
       ImportStmt(<<Id("X")>>, "'m'"),
       ImportStmt(<<Nd("namespace_import", <<Tok("*"), Tok("as"), Id("N")>>)>>, "'m'"),
       ImportStmt(<<NamedImports(<<ISpec1("a"), Tok(","), ISpec2("b", "c")>>)>>, "'./m'"),
       Nd("import_statement", <<Tok("import"), Fld("source", Str("'m'")), Tok(";")>>),
       ImportStmt(<<Id("D"), Tok(","), NamedImports(<<ISpec1("e")>>)>>, "\"m\""),
       ImportStmt(<<NamedImports(<<ISpecDefault("d"), Tok(","), ISpec2("u", "w"), Tok(","), ISpec1("z")>>)>>, "'m'"),
       Nd("import_statement", <<Tok("import"), Nd("import_clause", <<Id("X")>>), Tok("from"), Tok(";")>>),
       \* 8..10: require bindings
       Lexical(<<Declarator(Id("fs"), CallExpr("require", "'fs'"))>>),
       Lexical(<<Declarator(
           Nd("object_pattern",
              <<Tok("{"), Leaf("shorthand_property_identifier_pattern", "a"), Tok(","),
                Nd("pair_pattern", <<Fld("key", PropId("b")), Tok(":"), Fld("value", Id("c"))>>),
                Tok("}")>>),
           CallExpr("require", "'m'"))>>),
       Lexical(<<Declarator(Id("y"), CallExpr("load", "'m'"))>>),
       \* 11..14: re-exports
       Export(<<Tok("*")>> \o FromM("'./utils'")),
       Export(<<ExportClause(<<ESpec1("a"), Tok(","), ESpec2("b", "c")>>)>> \o FromM("'./m'")),
       Export(<<ExportClause(<<ESpecToDefault("x")>>)>> \o FromM("'./m'")),
       Export(<<ExportClause(<<ESpecDefault>>)>> \o FromM("'./m'")),
       \* 15..20: functions and bindings
       FunctionDecl("foo", <<>>),
       FunctionDecl("outer", <<FunctionDecl("inner", <<>>)>>),
       Lexical(<<Declarator(Id("arrow"), Arrow)>>),
       Lexical(<<Declarator(Id("bar"), FunctionExpr("named"))>>),
       Lexical(<<Declarator(Id("p"), Arrow), Tok(","),
                 Declarator(Id("q"), Fld("value", Leaf("number", "1")))>>),
       Lexical(<<Declarator(Id("n"), Fld("value", Leaf("number", "1")))>>),
       \* 21..24: classes
       ClassDecl("Calc", MembersA),
       AbstractClassDecl("Shape", MembersB),
       Nd("class_declaration", <<Tok("class"), Fld("name", TypeId("")), ClassBody(<<Method(<<>>, PropId("m"))>>)>>),
       Nd("class_declaration", <<Tok("class"), ClassBody(<<Method(<<>>, PropId("m"))>>)>>),
       \* 25..27: interface, type alias, enum
       InterfaceDecl("User"),
       TypeAliasDecl("ID"),
       EnumDecl("Color"),
       \* 28..36: export statements
       Export(<<Tok("default"), Fld("declaration", FunctionDecl("f", <<>>))>>),
       Export(<<Tok("default"), Fld("declaration", ClassDecl("MyClass", <<Method(<<>>, PropId("method"))>>))>>),
       Export(<<Fld("declaration", FunctionDecl("g", <<>>))>>),
       Export(<<Fld("declaration", InterfaceDecl("I"))>>),
       Export(<<ExportClause(<<ESpec1("foo"), Tok(","), ESpec2("bar", "baz")>>), Tok(";")>>),
       Export(<<Tok("type"), ExportClause(<<ESpec1("T")>>), Tok(";")>>),
       Export(<<Tok("default"), Fld("value", Leaf("number", "42")), Tok(";")>>),
       Export(<<Fld("declaration", Lexical(<<Declarator(Id("h"), Arrow)>>))>>),
       Export(<<Fld("declaration", AbstractClassDecl("Base", <<Method(<<Tok("static")>>, PropId("of"))>>))>>),
       \* 37: a statement of no recognised kind
       Nd("expression_statement",
          <<Nd("call_expression",
               <<Fld("function", Id("run")),
                 Fld("arguments", Nd("arguments", <<Tok("("), Tok(")")>>))>>),
            Tok(";")>>),
       \* 38: a re-export under a string name
       Export(<<ExportClause(<<ESpecToString("y", "'s'")>>)>> \o FromM("'./m'")),
       \* 39: a named import whose module string is missing
       Nd("import_statement",
          <<Tok("import"), Nd("import_clause", <<NamedImports(<<ISpec1("a"), Tok(","), ISpec2("b", "c")>>)>>),
            Tok("from"), Tok(";")>>),
       \* 40: a binding to an anonymous function expression
       Lexical(<<Declarator(Id("anon"),
                   Fld("value", Nd("function_expression", <<Tok("function"), Params, Body>>)))>>),
       \* 41: an exported namespace holding an exported function
       Export(<<Fld("declaration",
                    Nd("internal_module",
                       <<Tok("namespace"), Fld("name", Id("NS")),
                         Fld("body", Nd("statement_block",
                             <<Tok("{"),
                               Export(<<Fld("declaration", FunctionDecl("deep", <<>>))>>),
                               Tok("}")>>))>>))>>),
       \* 42: a local name exported as the default
       Export(<<ExportClause(<<ESpecToDefault("x")>>), Tok(";")>>),
       \* 43, 44: an exported type alias, an exported enum
       Export(<<Fld("declaration", TypeAliasDecl("Key"))>>),
       Export(<<Fld("declaration", EnumDecl("Mode"))>>)
    >>

StmtIds == 1 .. Len(Catalog)
\* statements combined freely with any other statement in longer files
MixIds == {3, 11, 15, 21, 28}

(***************************************************************************)
(* Text helpers.                                                           *)
(***************************************************************************)
\* str.strip(chars): drop leading and trailing characters that are in chars
RECURSIVE LStrip(_, _)
LStrip(s, chars) ==
    IF Len(s) > 0 /\ SubSeq(s, 1, 1) \in chars THEN LStrip(SubSeq(s, 2, Len(s)), chars) ELSE s

RECURSIVE RStrip(_, _)
RStrip(s, chars) ==
    IF Len(s) > 0 /\ SubSeq(s, Len(s), Len(s)) \in chars
    THEN RStrip(SubSeq(s, 1, Len(s) - 1), chars) ELSE s

QuoteChars == {"\"", "'"}
strip_quotes(s) == RStrip(LStrip(s, QuoteChars), QuoteChars)

\* s[k:] of a Python string, k >= 0
SliceFrom(s, k) == IF k >= Len(s) THEN "" ELSE SubSeq(s, k + 1, Len(s))

(***************************************************************************)
(* Node helpers.                                                           *)
(***************************************************************************)
find_node(nodes, condition(_)) ==
    LET hits == {i \in 1 .. Len(nodes) : condition(nodes[i])}
    IN  IF hits = {} THEN None ELSE Some(nodes[Min(hits)])

find_type(nodes, ty) == find_node(nodes, LAMBDA n : n.type = ty)

child_by_field_name(node, f) == find_node(node.children, LAMBDA n : n.field = f)

\* [c for c in node.children if c.type in types]
children_of_type(node, types) == SelectSeq(node.children, LAMBDA c : c.type \in types)

(***************************************************************************)
(* Records.                                                                *)
(***************************************************************************)
ImportStatement(name, module, node, script_path) ==
    [name |-> name, module |-> module,
     start_point |-> node.start_point, end_point |-> node.end_point,
     source_code |-> node.text, file_path |-> script_path]

\* variant: the end of the span is copied from its start
Definition_point_span(name, node, script_path) ==
    [name |-> name,
     start_point |-> node.start_point, end_point |-> node.start_point,
     source_code |-> node.text, file_path |-> script_path]

Definition(name, node, script_path) ==
    [name |-> name,
     start_point |-> node.start_point, end_point |-> node.end_point,
     source_code |-> node.text, file_path |-> script_path]

ExportStatement(name, local_name, is_default, is_type_only, node, script_path) ==
    [name |-> name, local_name |-> local_name,
     is_default |-> is_default, is_type_only |-> is_type_only,
     start_point |-> node.start_point, end_point |-> node.end_point,
     source_code |-> node.text, file_path |-> script_path]

MethodDefinition(name, class_name, flags, node, script_path) ==
    [name |-> name, class_name |-> class_name,
     is_static |-> flags.is_static, is_async |-> flags.is_async,
     is_private |-> flags.is_private, is_getter |-> flags.is_getter,
     is_setter |-> flags.is_setter, is_constructor |-> flags.is_constructor,
     start_point |-> node.start_point, end_point |-> node.end_point,
     source_code |-> node.text, file_path |-> script_path]

RECURSIVE Flatten(_)
Flatten(ss) == IF ss = <<>> THEN <<>> ELSE Head(ss) \o Flatten(Tail(ss))

(***************************************************************************)
(* Import, require and re-export extraction.                               *)
(***************************************************************************)
\* the name a named-import or re-export specifier is recorded under:
\* the second identifier child if there are two, the only one if there is
\* one, no record otherwise
specifier_name(child) ==
    LET identifiers == children_of_type(child, {"identifier"})
    IN  IF Len(identifiers) = 2 THEN Some(identifiers[2].text)
        ELSE IF Len(identifiers) = 1 THEN Some(identifiers[1].text)
        ELSE None

specifier_imports(clause, specifier_type, module_path, node, script_path) ==
    Flatten([i \in 1 .. Len(clause.children) |->
        LET child == clause.children[i]
        IN  IF child.type = specifier_type /\ specifier_name(child) # None
            THEN <<ImportStatement(specifier_name(child)[1], module_path, node, script_path)>>
            ELSE <<>>])

\* variant: a statement without a module string is given the empty module
import_module_path_defaulted(node) ==
    LET module_node == find_type(node.children, "string")
    IN  IF module_node = None THEN Some("") ELSE Some(strip_quotes(module_node[1].text))

\* the module an import statement names, None when it has no string child
import_module_path(node) ==
    LET module_node == find_type(node.children, "string")
    IN  IF module_node = None THEN None ELSE Some(strip_quotes(module_node[1].text))

extract_import_from_node(node, script_path) ==
    LET module_node == import_module_path(node)
    IN  IF module_node = None THEN <<>>
        ELSE
        LET module_path == module_node[1]
            import_clause == find_type(node.children, "import_clause")
        IN  IF import_clause = None THEN <<>>
            ELSE
            LET clause == import_clause[1]
                identifier_node == find_type(clause.children, "identifier")
                default_part ==
                    IF identifier_node # None
                    THEN <<ImportStatement(identifier_node[1].text, module_path, node, script_path)>>
                    ELSE <<>>
                namespace_import == find_type(clause.children, "namespace_import")
                namespace_identifier ==
                    IF namespace_import = None THEN None
                    ELSE find_type(namespace_import[1].children, "identifier")
                namespace_part ==
                    IF namespace_identifier # None
                    THEN <<ImportStatement(namespace_identifier[1].text, module_path, node, script_path)>>
                    ELSE <<>>
                named_imports == find_type(clause.children, "named_imports")
                named_part ==
                    IF named_imports = None THEN <<>>
                    ELSE specifier_imports(named_imports[1], "import_specifier",
                                           module_path, node, script_path)
            IN  default_part \o namespace_part \o named_part

\* variant: the property key is taken for an identifier and wins
pair_pattern_name_key(child) ==
    LET identifiers == children_of_type(child, {"property_identifier", "identifier"})
    IN  IF Len(identifiers) >= 1 THEN Some(identifiers[1].text) ELSE None

\* the name an aliased destructuring property is recorded under
pair_pattern_name(child) ==
    LET identifiers == children_of_type(child, {"identifier", "shorthand_property_identifier"})
    IN  IF Len(identifiers) >= 1 THEN Some(identifiers[Len(identifiers)].text) ELSE None

object_pattern_imports(name_node, module_path, node, script_path) ==
    Flatten([i \in 1 .. Len(name_node.children) |->
        LET child == name_node.children[i]
        IN  IF child.type = "shorthand_property_identifier_pattern"
            THEN <<ImportStatement(child.text, module_path, node, script_path)>>
            ELSE IF child.type = "pair_pattern" /\ pair_pattern_name(child) # None
            THEN <<ImportStatement(pair_pattern_name(child)[1], module_path, node, script_path)>>
            ELSE <<>>])

extract_require_from_node(node, script_path) ==
    LET declarator == find_type(node.children, "variable_declarator")
        call_expr == IF declarator = None THEN None
                     ELSE find_type(declarator[1].children, "call_expression")
        function_node == IF call_expr = None THEN None
                         ELSE find_type(call_expr[1].children, "identifier")
        arguments == IF call_expr = None THEN None
                     ELSE find_type(call_expr[1].children, "arguments")
        module_node == IF arguments = None THEN None
                       ELSE find_type(arguments[1].children, "string")
    IN  IF declarator = None \/ call_expr = None THEN <<>>
        ELSE IF function_node = None THEN <<>>
        ELSE IF function_node[1].text # "require" THEN <<>>
        ELSE IF arguments = None \/ module_node = None THEN <<>>
        ELSE
        LET module_path == strip_quotes(module_node[1].text)
            name_node == child_by_field_name(declarator[1], "name")
        IN  IF name_node = None THEN <<>>
            ELSE IF name_node[1].type = "object_pattern"
            THEN object_pattern_imports(name_node[1], module_path, node, script_path)
            ELSE IF name_node[1].type = "identifier"
            THEN <<ImportStatement(name_node[1].text, module_path, node, script_path)>>
            ELSE <<>>

has_wildcard(node) ==
    \E i \in 1 .. Len(node.children) :
        node.children[i].type = "*" \/ node.children[i].text = "*"

extract_reexport_from_node(node, script_path) ==
    LET module_node == find_type(node.children, "string")
    IN  IF module_node = None THEN <<>>
        ELSE
        LET module_path == strip_quotes(module_node[1].text)
            export_clause == find_type(node.children, "export_clause")
        IN  IF has_wildcard(node)
            THEN <<ImportStatement("*", module_path, node, script_path)>>
            ELSE IF export_clause = None THEN <<>>
            ELSE specifier_imports(export_clause[1], "export_specifier",
                                   module_path, node, script_path)

(***************************************************************************)
(* Function, class, interface, type-alias and enum extraction.  Each       *)
(* returns None or Some(record).                                           *)
(***************************************************************************)
\* variant: a named function expression gives the record its own name
function_name_of_inner_name(node) ==
    IF node.type = "function_declaration"
    THEN LET name_node == child_by_field_name(node, "name")
         IN  IF name_node # None THEN Some(name_node[1].text) ELSE None
    ELSE IF node.type = "lexical_declaration"
    THEN LET declarator == find_type(node.children, "variable_declarator")
         IN  IF declarator = None THEN None
             ELSE
             LET arrow_function == find_type(declarator[1].children, "arrow_function")
                 function_expression == find_type(declarator[1].children, "function_expression")
                 name_node == child_by_field_name(declarator[1], "name")
             IN  IF arrow_function # None
                 THEN IF name_node # None THEN Some(name_node[1].text) ELSE None
                 ELSE IF function_expression # None
                 THEN IF child_by_field_name(function_expression[1], "name") # None
                      THEN Some(child_by_field_name(function_expression[1], "name")[1].text)
                      ELSE IF name_node # None THEN Some(name_node[1].text) ELSE None
                 ELSE None
    ELSE None

\* the name of the function a node defines, None when it defines none
function_name_of(node) ==
    IF node.type = "function_declaration"
    THEN LET name_node == child_by_field_name(node, "name")
         IN  IF name_node # None THEN Some(name_node[1].text) ELSE None
    ELSE IF node.type = "lexical_declaration"
    THEN LET declarator == find_type(node.children, "variable_declarator")
         IN  IF declarator = None THEN None
             ELSE
             LET arrow_function == find_type(declarator[1].children, "arrow_function")
                 function_expression == find_type(declarator[1].children, "function_expression")
                 name_node == child_by_field_name(declarator[1], "name")
             IN  IF arrow_function # None \/ function_expression # None
                 THEN IF name_node # None THEN Some(name_node[1].text) ELSE None
                 ELSE None
    ELSE None

\* Python truthiness of an optional string: neither None nor empty
Truthy(opt) == opt # None /\ opt[1] # ""

extract_function_from_node(node, script_path) ==
    LET function_name == function_name_of(node)
    IN  IF Truthy(function_name)
        THEN Some(Definition(function_name[1], node, script_path))
        ELSE None

\* shared shape of the class, interface, type-alias and enum extractors
extract_named_from_node(node, script_path) ==
    LET name_node == child_by_field_name(node, "name")
    IN  IF name_node # None
        THEN Some(Definition(name_node[1].text, node, script_path))
        ELSE None

extract_class_from_node(node, script_path) == extract_named_from_node(node, script_path)

extract_interface_from_node(node, script_path) == extract_named_from_node(node, script_path)

extract_type_alias_from_node(node, script_path) == extract_named_from_node(node, script_path)

extract_enum_from_node(node, script_path) == extract_named_from_node(node, script_path)

(***************************************************************************)
(* Export-statement extraction.                                            *)
(***************************************************************************)
\* variant: the keyword is looked for in the first child only
has_default_first_child(node) ==
    node.children[1].type = "default" \/ node.children[1].text = "default"

has_default(node) ==
    \E i \in 1 .. Len(node.children) :
        node.children[i].type = "default" \/ node.children[i].text = "default"

is_type_only(node) ==
    \E i \in 1 .. Len(node.children) :
        /\ node.children[i].type = "type_identifier" \/ node.children[i].text = "type"
        /\ i + 1 <= Len(node.children)
        /\ node.children[i + 1].type = "export_clause"

export_specifier_record(child, type_only, node, script_path) ==
    LET identifiers == children_of_type(child, {"identifier"})
    IN  IF Len(identifiers) = 2
        THEN <<ExportStatement(identifiers[2].text, Some(identifiers[1].text),
                               FALSE, type_only, node, script_path)>>
        ELSE IF Len(identifiers) = 1
        THEN <<ExportStatement(identifiers[1].text, None,
                               FALSE, type_only, node, script_path)>>
        ELSE <<>>

extract_export_from_node(node, script_path) ==
    IF has_default(node)
    THEN <<ExportStatement("default", None, TRUE, FALSE, node, script_path)>>
    ELSE
    LET export_clause == find_type(node.children, "export_clause")
    IN  IF export_clause = None THEN <<>>
        ELSE Flatten([i \in 1 .. Len(export_clause[1].children) |->
                 LET child == export_clause[1].children[i]
                 IN  IF child.type = "export_specifier"
                     THEN export_specifier_record(child, is_type_only(node), node, script_path)
                     ELSE <<>>])

(***************************************************************************)
(* Class-member extraction.                                                *)
(***************************************************************************)
NoFlags ==
    [is_static |-> FALSE, is_async |-> FALSE, is_private |-> FALSE,
     is_getter |-> FALSE, is_setter |-> FALSE, is_constructor |-> FALSE,
     method_name |-> None]

\* one iteration of the loop over a member's children: modifiers, then name
modifier_step(st, method_child) ==
    IF method_child.type = "accessibility_modifier"
    THEN IF method_child.text = "private" THEN [st EXCEPT !.is_private = TRUE] ELSE st
    ELSE IF method_child.text = "static" THEN [st EXCEPT !.is_static = TRUE]
    ELSE IF method_child.text = "async" THEN [st EXCEPT !.is_async = TRUE]
    ELSE IF method_child.text = "get" THEN [st EXCEPT !.is_getter = TRUE]
    ELSE IF method_child.text = "set" THEN [st EXCEPT !.is_setter = TRUE]
    ELSE st

\* variant: a static member is never taken for the constructor
name_step_not_static(st, method_child) ==
    IF method_child.type = "property_identifier"
    THEN [st EXCEPT !.method_name = Some(method_child.text),
                    !.is_constructor = (st.is_constructor
                                        \/ (method_child.text = "constructor" /\ ~st.is_static))]
    ELSE IF method_child.type = "private_property_identifier"
    THEN [st EXCEPT !.method_name = Some(method_child.text), !.is_private = TRUE]
    ELSE st

name_step(st, method_child) ==
    IF method_child.type = "property_identifier"
    THEN [st EXCEPT !.method_name = Some(method_child.text),
                    !.is_constructor = (st.is_constructor \/ method_child.text = "constructor")]
    ELSE IF method_child.type = "private_property_identifier"
    THEN [st EXCEPT !.method_name = Some(method_child.text), !.is_private = TRUE]
    ELSE st

RECURSIVE scan_member(_, _)
scan_member(method_children, st) ==
    IF method_children = <<>> THEN st
    ELSE scan_member(Tail(method_children),
                     name_step(modifier_step(st, Head(method_children)), Head(method_children)))

member_record(child, class_name, script_path) ==
    LET st == scan_member(child.children, NoFlags)
    IN  IF Truthy(st.method_name)
        THEN <<MethodDefinition(st.method_name[1], class_name, st, child, script_path)>>
        ELSE <<>>

extract_methods_from_class(node, class_name, script_path) ==
    LET class_body == find_type(node.children, "class_body")
    IN  IF class_body = None THEN <<>>
        ELSE Flatten([i \in 1 .. Len(class_body[1].children) |->
                 LET child == class_body[1].children[i]
                 IN  IF child.type = "method_definition"
                     THEN member_record(child, class_name, script_path)
                     ELSE <<>>])

(***************************************************************************)
(* The code unit and the declaration walk.                                 *)
(***************************************************************************)
RecordLists ==
    {"depends_on", "provides_function_definition", "provides_class_definition",
     "provides_interface_definition", "provides_type_alias",
     "provides_enum_definition", "exports", "provides_method_definition"}

TypeScriptCodeFile(script_path, name, source_code) ==
    [id |-> <<"uuid5", script_path>>, name |-> name, source_code |-> source_code,
     file_path |-> script_path, language |-> "typescript",
     depends_on |-> <<>>, provides_function_definition |-> <<>>,
     provides_class_definition |-> <<>>, provides_interface_definition |-> <<>>,
     provides_type_alias |-> <<>>, provides_enum_definition |-> <<>>,
     exports |-> <<>>, provides_method_definition |-> <<>>]

\* the appends a node makes, in order: each names a list and carries a record
AppendsTo(list, recs) == [i \in 1 .. Len(recs) |-> [list |-> list, rec |-> recs[i]]]

\* variant: the methods are extracted whether or not the class gave a record
class_appends_unnamed_methods(node, script_path) ==
    LET class_def == extract_class_from_node(node, script_path)
    IN  AppendsTo("provides_class_definition", class_def)
        \o AppendsTo("provides_method_definition",
                     extract_methods_from_class(
                         node, IF class_def = None THEN "" ELSE class_def[1].name, script_path))

class_appends(node, script_path) ==
    LET class_def == extract_class_from_node(node, script_path)
    IN  IF class_def = None THEN <<>>
        ELSE AppendsTo("provides_class_definition", class_def)
             \o AppendsTo("provides_method_definition",
                          extract_methods_from_class(node, class_def[1].name, script_path))

\* variant: the methods of an exported class are not extracted
export_child_appends_no_methods(export_child, script_path) ==
    IF export_child.type = "function_declaration"
    THEN AppendsTo("provides_function_definition", extract_function_from_node(export_child, script_path))
    ELSE IF export_child.type \in {"class_declaration", "abstract_class_declaration"}
    THEN AppendsTo("provides_class_definition", extract_class_from_node(export_child, script_path))
    ELSE IF export_child.type = "lexical_declaration"
    THEN AppendsTo("provides_function_definition", extract_function_from_node(export_child, script_path))
    ELSE IF export_child.type = "interface_declaration"
    THEN AppendsTo("provides_interface_definition", extract_interface_from_node(export_child, script_path))
    ELSE IF export_child.type = "type_alias_declaration"
    THEN AppendsTo("provides_type_alias", extract_type_alias_from_node(export_child, script_path))
    ELSE IF export_child.type = "enum_declaration"
    THEN AppendsTo("provides_enum_definition", extract_enum_from_node(export_child, script_path))
    ELSE <<>>

\* the branches of the walk taken for a child of an export statement
export_child_appends(export_child, script_path) ==
    IF export_child.type = "function_declaration"
    THEN AppendsTo("provides_function_definition", extract_function_from_node(export_child, script_path))
    ELSE IF export_child.type = "class_declaration"
    THEN class_appends(export_child, script_path)
    ELSE IF export_child.type = "abstract_class_declaration"
    THEN class_appends(export_child, script_path)
    ELSE IF export_child.type = "lexical_declaration"
    THEN AppendsTo("provides_function_definition", extract_function_from_node(export_child, script_path))
    ELSE IF export_child.type = "interface_declaration"
    THEN AppendsTo("provides_interface_definition", extract_interface_from_node(export_child, script_path))
    ELSE IF export_child.type = "type_alias_declaration"
    THEN AppendsTo("provides_type_alias", extract_type_alias_from_node(export_child, script_path))
    ELSE IF export_child.type = "enum_declaration"
    THEN AppendsTo("provides_enum_definition", extract_enum_from_node(export_child, script_path))
    ELSE <<>>

\* variant: export records and inner declarations are extracted from
\* re-exports too
export_statement_appends_no_else(child_node, script_path) ==
    AppendsTo("depends_on", extract_reexport_from_node(child_node, script_path))
    \o AppendsTo("exports", extract_export_from_node(child_node, script_path))
    \o Flatten([i \in 1 .. Len(child_node.children) |->
           export_child_appends(child_node.children[i], script_path)])

export_statement_appends(child_node, script_path) ==
    LET reexport_imports == extract_reexport_from_node(child_node, script_path)
    IN  IF reexport_imports # <<>>
        THEN AppendsTo("depends_on", reexport_imports)
        ELSE AppendsTo("exports", extract_export_from_node(child_node, script_path))
             \o Flatten([i \in 1 .. Len(child_node.children) |->
                    export_child_appends(child_node.children[i], script_path)])

lexical_declaration_appends(child_node, script_path) ==
    LET require_imports == extract_require_from_node(child_node, script_path)
    IN  IF require_imports # <<>>
        THEN AppendsTo("depends_on", require_imports)
        ELSE AppendsTo("provides_function_definition",
                       extract_function_from_node(child_node, script_path))

\* the function declarations found at any depth below a node
RECURSIVE nested_function_appends(_, _)
nested_function_appends(node, script_path) ==
    Flatten([k \in 1 .. Len(node.children) |->
        (IF node.children[k].type = "function_declaration"
         THEN AppendsTo("provides_function_definition",
                        extract_function_from_node(node.children[k], script_path))
         ELSE <<>>)
        \o nested_function_appends(node.children[k], script_path)])

\* variant: the walk descends into the body of a function declaration
child_appends_nested(child_node, script_path) ==
    IF child_node.type = "import_statement"
    THEN AppendsTo("depends_on", extract_import_from_node(child_node, script_path))
    ELSE IF child_node.type = "function_declaration"
    THEN AppendsTo("provides_function_definition", extract_function_from_node(child_node, script_path))
         \o nested_function_appends(child_node, script_path)
    ELSE IF child_node.type = "lexical_declaration"
    THEN lexical_declaration_appends(child_node, script_path)
    ELSE IF child_node.type \in {"class_declaration", "abstract_class_declaration"}
    THEN class_appends(child_node, script_path)
    ELSE IF child_node.type = "interface_declaration"
    THEN AppendsTo("provides_interface_definition", extract_interface_from_node(child_node, script_path))
    ELSE IF child_node.type = "type_alias_declaration"
    THEN AppendsTo("provides_type_alias", extract_type_alias_from_node(child_node, script_path))
    ELSE IF child_node.type = "enum_declaration"
    THEN AppendsTo("provides_enum_definition", extract_enum_from_node(child_node, script_path))
    ELSE IF child_node.type = "export_statement"
    THEN export_statement_appends(child_node, script_path)
    ELSE <<>>

\* the body of the walk's loop for one top-level child, when nothing raises
child_appends(child_node, script_path) ==
    IF child_node.type = "import_statement"
    THEN AppendsTo("depends_on", extract_import_from_node(child_node, script_path))
    ELSE IF child_node.type = "function_declaration"
    THEN AppendsTo("provides_function_definition", extract_function_from_node(child_node, script_path))
    ELSE IF child_node.type = "lexical_declaration"
    THEN lexical_declaration_appends(child_node, script_path)
    ELSE IF child_node.type = "class_declaration"
    THEN class_appends(child_node, script_path)
    ELSE IF child_node.type = "abstract_class_declaration"
    THEN class_appends(child_node, script_path)
    ELSE IF child_node.type = "interface_declaration"
    THEN AppendsTo("provides_interface_definition", extract_interface_from_node(child_node, script_path))
    ELSE IF child_node.type = "type_alias_declaration"
    THEN AppendsTo("provides_type_alias", extract_type_alias_from_node(child_node, script_path))
    ELSE IF child_node.type = "enum_declaration"
    THEN AppendsTo("provides_enum_definition", extract_enum_from_node(child_node, script_path))
    ELSE IF child_node.type = "export_statement"
    THEN export_statement_appends(child_node, script_path)
    ELSE <<>>

\* variant: a record is put at the front of its list
RECURSIVE apply_appends_prepend(_, _)
apply_appends_prepend(code_file, appends) ==
    IF appends = <<>> THEN code_file
    ELSE apply_appends_prepend(
             [code_file EXCEPT ![Head(appends).list] = <<Head(appends).rec>> \o @],
             Tail(appends))

RECURSIVE apply_appends(_, _)
apply_appends(code_file, appends) ==
    IF appends = <<>> THEN code_file
    ELSE apply_appends(
             [code_file EXCEPT ![Head(appends).list] = Append(@, Head(appends).rec)],
             Tail(appends))

\* raise_at[i] = NoRaise: child i is processed to its end; raise_at[i] = k:
\* an exception is raised in child i once k of its records are appended
NoRaise == -1

Prefix(seq, k) == SubSeq(seq, 1, IF k < Len(seq) THEN k ELSE Len(seq))

\* one iteration of the walk's loop: the try body and its except clause,
\* which logs the node kind and the path, and continues with the next child
walk_child(walk, child_node, script_path, raise_point) ==
    LET appends == child_appends(child_node, script_path)
    IN  IF raise_point = NoRaise
        THEN [walk EXCEPT !.code_file = apply_appends(@, appends)]
        ELSE [walk EXCEPT !.code_file = apply_appends(@, Prefix(appends, raise_point)),
                          !.log = Append(@, [node_type |-> child_node.type,
                                             script_path |-> script_path])]

\* variant: the try statement encloses the loop, so the first exception
\* ends the walk and leaves it
RECURSIVE walk_from_try_outside(_, _, _, _, _)
walk_from_try_outside(walk, children, script_path, raise_at, i) ==
    IF i > Len(children) THEN walk
    ELSE IF raise_at[i] # NoRaise
    THEN [walk_child(walk, children[i], script_path, raise_at[i]) EXCEPT !.escaped = TRUE]
    ELSE walk_from_try_outside(walk_child(walk, children[i], script_path, raise_at[i]),
                               children, script_path, raise_at, i + 1)

RECURSIVE walk_from(_, _, _, _, _)
walk_from(walk, children, script_path, raise_at, i) ==
    IF i > Len(children) THEN walk
    ELSE walk_from(walk_child(walk, children[i], script_path, raise_at[i]),
                   children, script_path, raise_at, i + 1)

\* the walk: returns the populated unit, what it logged, and whether an
\* exception escaped to the caller
extract_code_parts(tree_root, script_path, code_file, raise_at) ==
    walk_from([code_file |-> code_file, log |-> <<>>, escaped |-> FALSE],
              tree_root.children, script_path, raise_at, 1)

(***************************************************************************)
(* Files and the parser.                                                   *)
(***************************************************************************)
RepoPath == "/repo"
Paths == {"/repo/a.ts", "/repo/ui/b.tsx"}
\* the path extracted in the single-invocation specification
ExtractPaths == {"/repo/ui/b.tsx"}

\* the text of a file: one line per top-level statement
SourceOf(content) == [i \in 1 .. Len(content) |-> Place(Catalog[content[i]], i - 1, 0).text]

\* the tree the parsing library builds for that text
TreeOf(content) ==
    [root_node |->
        [type |-> "program", field |-> "", text |-> "",
         start_point |-> <<0, 0>>,
         end_point |-> IF content = <<>> THEN <<0, 0>>
                       ELSE Place(Catalog[content[Len(content)]], Len(content) - 1, 0).end_point,
         children |-> [i \in 1 .. Len(content) |-> Place(Catalog[content[i]], i - 1, 0)]]]

Unreadable == [readable |-> FALSE, content |-> <<>>]
Readable(content) == [readable |-> TRUE, content |-> content]

\* variant: a failed read yields an empty text
get_source_code_empty_on_error(file) ==
    IF file.readable THEN Some(SourceOf(file.content)) ELSE Some(<<>>)

\* reads the file; any error is logged and None returned
get_source_code(file) == IF file.readable THEN Some(SourceOf(file.content)) ELSE None

EmptyCache == [p \in Paths |-> None]

\* variant: the cache is never consulted
is_cached_never(cache, file_path) == FALSE

is_cached(cache, file_path) == cache[file_path] # None

\* the pair parse_file stores and returns once the read has succeeded
parse_source(file) == [source_code |-> SourceOf(file.content), tree |-> TreeOf(file.content)]

(***************************************************************************)
(* get_typescript_dependencies.                                            *)
(***************************************************************************)
relative_path(repo_path, script_path) == SliceFrom(script_path, Len(repo_path) + 1)

shallow_code_file(repo_path, script_path, source_code) ==
    TypeScriptCodeFile(script_path, relative_path(repo_path, script_path), Some(source_code))

\* variant: the detailed unit keeps the raw source
detailed_code_file_keeps_source(repo_path, script_path, source_code) ==
    TypeScriptCodeFile(script_path, relative_path(repo_path, script_path), Some(source_code))

detailed_code_file(repo_path, script_path, source_code) ==
    TypeScriptCodeFile(script_path, relative_path(repo_path, script_path), None)

(***************************************************************************)
(* State.  Tasks are invocations under way; parser 0 is a parser instance  *)
(* shared by plain parse_file calls, parser t the instance invocation t of *)
(* get_typescript_dependencies creates for itself.                         *)
(***************************************************************************)
Tasks == {1, 2}
Parsers == {0} \union Tasks
SharedParser == 0

\* the batch driver when it is not running
NoDriver ==
    [pc |-> "off", repo_path |-> "", detailed_extraction |-> FALSE,
     repo_files |-> <<>>, source_files |-> <<>>, i |-> 0,
     tasks |-> <<>>, results |-> <<>>, k |-> 0, yielded |-> <<>>]

\* variant: every invocation works with the one shared parser instance
parser_of_shared(t) == SharedParser

\* the parser instance invocation t of get_typescript_dependencies works
\* with: the one it creates for itself
parser_of(t) == t

NoArgs == [repo_path |-> "", script_path |-> "", detailed_extraction |-> FALSE]

SeqsOver(S, n) == UNION {[1 .. k -> S] : k \in 0 .. n}

\* the file contents explored: every catalog statement alone and in every
\* position among statements of MixIds
Contents ==
    {<<>>} \union
    {t[2] \o <<t[1]>> \o t[3] :
        t \in {u \in StmtIds \X SeqsOver(MixIds, MaxChildren - 1) \X SeqsOver(MixIds, MaxChildren - 1) :
                  Len(u[2]) + Len(u[3]) <= MaxChildren - 1}}

FileStates == {Unreadable} \union {Readable(c) : c \in Contents}

\* the points at which the environment may make the processing of the
\* children of a walk raise
RaiseChoices(n) ==
    {f \in [1 .. n -> {NoRaise} \union (0 .. MaxRaiseStep)] :
        Cardinality({i \in 1 .. n : f[i] # NoRaise}) <= MaxRaises}

Init ==
    \E p \in ExtractPaths, f \in FileStates, d \in BOOLEAN :
        /\ files = [q \in Paths |-> IF q = p THEN f ELSE Readable(<<>>)]
        /\ args = [t \in Tasks |->
                     IF t = 1 THEN [repo_path |-> RepoPath, script_path |-> p,
                                    detailed_extraction |-> d]
                     ELSE NoArgs]
        /\ pc = [t \in Tasks |-> IF t = 1 THEN "idle" ELSE "off"]
        /\ parsed_files = [k \in Parsers |-> EmptyCache]
        /\ result = [t \in Tasks |-> None]
        /\ reads = [t \in Tasks |-> 0]
        /\ raised = [t \in Tasks |-> <<>>]
        /\ error_log = [t \in Tasks |-> <<>>]
        /\ driver = NoDriver

(***************************************************************************)
(* get_typescript_dependencies: creates a parser, calls parse_file, which  *)
(* misses the fresh cache and suspends at the file read.                   *)
(***************************************************************************)
ExtractCall(t) ==
    /\ pc[t] = "idle"
    /\ parsed_files' = [parsed_files EXCEPT ![parser_of(t)] = EmptyCache]
    /\ ~is_cached(parsed_files'[parser_of(t)], args[t].script_path)
    /\ pc' = [pc EXCEPT ![t] = "reading"]
    /\ UNCHANGED <<files, args, result, reads, raised, error_log, driver>>

\* the read fails: parse_file raises and the error leaves the invocation
ExtractReadError(t) ==
    /\ pc[t] = "reading"
    /\ get_source_code(files[args[t].script_path]) = None
    /\ reads' = [reads EXCEPT ![t] = @ + 1]
    /\ pc' = [pc EXCEPT ![t] = "raised"]
    /\ UNCHANGED <<files, args, parsed_files, result, raised, error_log, driver>>

\* the read succeeds, detailed_extraction is false
ExtractShallow(t) ==
    LET script_path == args[t].script_path
        source == get_source_code(files[script_path])
    IN  /\ pc[t] = "reading"
        /\ source # None
        /\ ~args[t].detailed_extraction
        /\ reads' = [reads EXCEPT ![t] = @ + 1]
        /\ parsed_files' = [parsed_files EXCEPT ![parser_of(t)][script_path] =
                               Some([parse_source(files[script_path]) EXCEPT !.source_code = source[1]])]
        /\ result' = [result EXCEPT ![t] =
                         Some(shallow_code_file(args[t].repo_path, script_path, source[1]))]
        /\ pc' = [pc EXCEPT ![t] = "returned"]
        /\ UNCHANGED <<files, args, raised, error_log, driver>>

\* the read succeeds, detailed_extraction is true: the whole walk runs
\* before the invocation returns
ExtractDetailed(t) ==
    LET script_path == args[t].script_path
        source == get_source_code(files[script_path])
        parsed == parse_source(files[script_path])
    IN  /\ pc[t] = "reading"
        /\ source # None
        /\ args[t].detailed_extraction
        /\ reads' = [reads EXCEPT ![t] = @ + 1]
        /\ parsed_files' = [parsed_files EXCEPT ![parser_of(t)][script_path] =
                               Some([parsed EXCEPT !.source_code = source[1]])]
        /\ \E raise_at \in RaiseChoices(Len(parsed.tree.root_node.children)) :
               LET walk == extract_code_parts(
                               parsed.tree.root_node, script_path,
                               detailed_code_file(args[t].repo_path, script_path, source[1]),
                               raise_at)
               IN  /\ raised' = [raised EXCEPT ![t] = raise_at]
                   /\ error_log' = [error_log EXCEPT ![t] = walk.log]
                   /\ IF walk.escaped
                      THEN /\ pc' = [pc EXCEPT ![t] = "raised"]
                           /\ UNCHANGED result
                      ELSE /\ pc' = [pc EXCEPT ![t] = "returned"]
                           /\ result' = [result EXCEPT ![t] = Some(walk.code_file)]
        /\ UNCHANGED <<files, args, driver>>

Next ==
    \E t \in Tasks :
        \/ ExtractCall(t)
        \/ ExtractReadError(t)
        \/ ExtractShallow(t)
        \/ ExtractDetailed(t)

Spec == Init /\ [][Next]_vars

(***************************************************************************)
(* parse_file called by one caller, call after call, on the shared parser  *)
(* instance, while the files change underneath.                            *)
(***************************************************************************)
ParserContents == {<<>>, <<15>>, <<3, 21>>}
ParserFileStates == {Unreadable} \union {Readable(c) : c \in ParserContents}

ParserInit ==
    /\ files \in [Paths -> ParserFileStates]
    /\ args = [t \in Tasks |-> NoArgs]
    /\ pc = [t \in Tasks |-> IF t = 1 THEN "idle" ELSE "off"]
    /\ parsed_files = [k \in Parsers |-> EmptyCache]
    /\ result = [t \in Tasks |-> None]
    /\ reads = [t \in Tasks |-> 0]
    /\ raised = [t \in Tasks |-> <<>>]
    /\ error_log = [t \in Tasks |-> <<>>]
    /\ driver = NoDriver

\* parse_file finds the path in the cache and returns the stored pair
ParseCallHit(t, file_path) ==
    /\ pc[t] = "idle"
    /\ is_cached(parsed_files[SharedParser], file_path)
    /\ args' = [args EXCEPT ![t] = [NoArgs EXCEPT !.script_path = file_path]]
    /\ reads' = [reads EXCEPT ![t] = 0]
    /\ result' = [result EXCEPT ![t] = parsed_files[SharedParser][file_path]]
    /\ pc' = [pc EXCEPT ![t] = "returned"]
    /\ UNCHANGED <<files, parsed_files, raised, error_log, driver>>

\* parse_file does not find the path and suspends at the file read
ParseCallMiss(t, file_path) ==
    /\ pc[t] = "idle"
    /\ ~is_cached(parsed_files[SharedParser], file_path)
    /\ args' = [args EXCEPT ![t] = [NoArgs EXCEPT !.script_path = file_path]]
    /\ reads' = [reads EXCEPT ![t] = 0]
    /\ result' = [result EXCEPT ![t] = None]
    /\ pc' = [pc EXCEPT ![t] = "reading"]
    /\ UNCHANGED <<files, parsed_files, raised, error_log, driver>>

\* the read succeeds: the text is parsed, the pair stored and returned
ParseReadOk(t) ==
    LET file_path == args[t].script_path
        source == get_source_code(files[file_path])
        parsed == [parse_source(files[file_path]) EXCEPT !.source_code = source[1]]
    IN  /\ pc[t] = "reading"
        /\ source # None
        /\ reads' = [reads EXCEPT ![t] = @ + 1]
        /\ parsed_files' = [parsed_files EXCEPT ![SharedParser][file_path] = Some(parsed)]
        /\ result' = [result EXCEPT ![t] = parsed_files'[SharedParser][file_path]]
        /\ pc' = [pc EXCEPT ![t] = "returned"]
        /\ UNCHANGED <<files, args, raised, error_log, driver>>

\* variant: a failed read stores the pair of an empty text before raising
ParseReadError_stores_empty(t) ==
    /\ pc[t] = "reading"
    /\ get_source_code(files[args[t].script_path]) = None
    /\ reads' = [reads EXCEPT ![t] = @ + 1]
    /\ parsed_files' = [parsed_files EXCEPT ![SharedParser][args[t].script_path] =
                           Some(parse_source(Readable(<<>>)))]
    /\ pc' = [pc EXCEPT ![t] = "raised"]
    /\ UNCHANGED <<files, args, result, raised, error_log, driver>>

\* the read fails: parse_file raises
ParseReadError(t) ==
    /\ pc[t] = "reading"
    /\ get_source_code(files[args[t].script_path]) = None
    /\ reads' = [reads EXCEPT ![t] = @ + 1]
    /\ pc' = [pc EXCEPT ![t] = "raised"]
    /\ UNCHANGED <<files, args, parsed_files, result, raised, error_log, driver>>

\* the caller has its answer and is free to call again
ParseDone(t) ==
    /\ pc[t] \in {"returned", "raised"}
    /\ pc' = [pc EXCEPT ![t] = "idle"]
    /\ UNCHANGED <<files, args, parsed_files, result, reads, raised, error_log, driver>>

\* the environment rewrites, removes or restores a file
FileWrite(file_path, file) ==
    /\ files[file_path] # file
    /\ files' = [files EXCEPT ![file_path] = file]
    /\ UNCHANGED <<pc, args, parsed_files, result, reads, raised, error_log, driver>>

ParserNext ==
    \/ \E t \in Tasks, file_path \in Paths : ParseCallHit(t, file_path)
    \/ \E t \in Tasks, file_path \in Paths : ParseCallMiss(t, file_path)
    \/ \E t \in Tasks : ParseReadOk(t)
    \/ \E t \in Tasks : ParseReadError(t)
    \/ \E t \in Tasks : ParseDone(t)
    \/ \E file_path \in Paths, file \in ParserFileStates : FileWrite(file_path, file)

ParserSpec == ParserInit /\ [][ParserNext]_vars

(***************************************************************************)
(* parse_file called by two callers on the shared parser instance: a call  *)
(* may start while the other is suspended at its file read.                *)
(***************************************************************************)
SharedParserInit ==
    /\ files \in [Paths -> ParserFileStates]
    /\ args = [t \in Tasks |-> NoArgs]
    /\ pc = [t \in Tasks |-> "idle"]
    /\ parsed_files = [k \in Parsers |-> EmptyCache]
    /\ result = [t \in Tasks |-> None]
    /\ reads = [t \in Tasks |-> 0]
    /\ raised = [t \in Tasks |-> <<>>]
    /\ error_log = [t \in Tasks |-> <<>>]
    /\ driver = NoDriver

SharedParserSpec == SharedParserInit /\ [][ParserNext]_vars

(***************************************************************************)
(* get_typescript_dependencies called with the repository root written in  *)
(* different ways, and with roots at different depths above the file.      *)
(***************************************************************************)
RepoPaths == {"/repo", "/repo/", "/repo/ui", "/repo/ui/"}

\* root, with or without a trailing separator, is a directory above path
IsAncestor(root, path) ==
    LET dir == RStrip(root, {"/"}) \o "/"
    IN  Len(dir) < Len(path) /\ SubSeq(path, 1, Len(dir)) = dir

RootInit ==
    \E p \in Paths, r \in RepoPaths, f \in ParserFileStates, d \in BOOLEAN :
        /\ IsAncestor(r, p)
        /\ files = [q \in Paths |-> IF q = p THEN f ELSE Readable(<<>>)]
        /\ args = [t \in Tasks |->
                     IF t = 1 THEN [repo_path |-> r, script_path |-> p, detailed_extraction |-> d]
                     ELSE NoArgs]
        /\ pc = [t \in Tasks |-> IF t = 1 THEN "idle" ELSE "off"]
        /\ parsed_files = [k \in Parsers |-> EmptyCache]
        /\ result = [t \in Tasks |-> None]
        /\ reads = [t \in Tasks |-> 0]
        /\ raised = [t \in Tasks |-> <<>>]
        /\ error_log = [t \in Tasks |-> <<>>]
        /\ driver = NoDriver

RootSpec == RootInit /\ [][Next]_vars

(***************************************************************************)
(* Two invocations of get_typescript_dependencies for different files, in  *)
(* flight together: each runs to its file read, where the other may run.   *)
(***************************************************************************)
ConcurrentInit ==
    \E p1 \in Paths, p2 \in Paths, d1 \in BOOLEAN, d2 \in BOOLEAN :
        /\ p1 # p2
        /\ files \in [Paths -> ParserFileStates]
        /\ args = [t \in Tasks |->
                     [repo_path |-> RepoPath,
                      script_path |-> IF t = 1 THEN p1 ELSE p2,
                      detailed_extraction |-> IF t = 1 THEN d1 ELSE d2]]
        /\ pc = [t \in Tasks |-> "idle"]
        /\ parsed_files = [k \in Parsers |-> EmptyCache]
        /\ result = [t \in Tasks |-> None]
        /\ reads = [t \in Tasks |-> 0]
        /\ raised = [t \in Tasks |-> <<>>]
        /\ error_log = [t \in Tasks |-> <<>>]
        /\ driver = NoDriver

ConcurrentSpec == ConcurrentInit /\ [][Next]_vars

(***************************************************************************)
(* get_repo_file_dependencies: the batch driver.  It yields the repository *)
(* node, lists the source files, and extracts them chunk by chunk; the     *)
(* extractions of a chunk run together and their results are gathered.     *)
(***************************************************************************)
\* the size of a chunk; the source sets 100, scaled here so that a
\* repository of a few files spans more than one chunk
chunk_size == 2
\* most source files in the repository
MaxFiles == 3

\* the files a repository may hold, in the order the directory walk lists
\* them: path, language of the extension, state of the file, and, for a
\* language whose extractor is not part of this code, whether it fails
SourceFile(file_path, language, file, extractor_fails) ==
    [file_path |-> file_path, language |-> language, file |-> file,
     extractor_fails |-> extractor_fails]

RepoFileChoices ==
    << {SourceFile("/repo/a.ts", "typescript", f, FALSE) : f \in {Unreadable, Readable(<<15>>)}},
       {SourceFile("/repo/c.py", "python", Readable(<<>>), x) : x \in BOOLEAN},
       {SourceFile("/repo/ui/b.tsx", "typescript", f, FALSE) : f \in {Unreadable, Readable(<<3, 21>>)}},
       {SourceFile("/repo/d.go", "go", f, FALSE) : f \in {Unreadable, Readable(<<>>)}} >>

\* the lists of at most n source files made of one choice for each of some
\* of the entries of choices from position j on, in their order
RECURSIVE FileLists(_, _, _)
FileLists(choices, j, n) ==
    IF j > Len(choices) \/ n = 0 THEN {<<>>}
    ELSE FileLists(choices, j + 1, n)
         \union {<<f>> \o rest : f \in choices[j], rest \in FileLists(choices, j + 1, n - 1)}

Repository(repo_path) ==
    [node |-> "Repository", id |-> <<"uuid5", repo_path>>, path |-> repo_path,
     part_of |-> None, unit |-> None]

\* variant: the code file is yielded without its repository
code_file_node_no_part_of(unit, file_path, repo) ==
    [node |-> "CodeFile", id |-> <<"uuid5", file_path>>, path |-> file_path,
     part_of |-> None, unit |-> Some(unit)]

\* a code file as it is yielded: the extracted unit, part_of set to repo
code_file_node(unit, file_path, repo) ==
    [node |-> "CodeFile", id |-> <<"uuid5", file_path>>, path |-> file_path,
     part_of |-> Some(repo), unit |-> Some(unit)]

\* the outcome of a coroutine: a value returned or an exception raised
Returned(value) == [ok |-> TRUE, value |-> Some(value)]
Raised(what) == [ok |-> FALSE, value |-> Some(what)]

\* a CodeFile stub for a language without extractor; a failed read gives
\* an empty source
make_codefile_stub(repo_path, source_file) ==
    Returned([id |-> <<"uuid5", source_file.file_path>>,
              name |-> SliceFrom(source_file.file_path, Len(repo_path) + 1),
              file_path |-> source_file.file_path, language |-> source_file.language,
              source_code |-> IF source_file.file.readable
                              THEN Some(SourceOf(source_file.file.content)) ELSE Some(<<>>)])

\* get_typescript_dependencies run to its end on a file
typescript_dependencies(repo_path, source_file, detailed_extraction) ==
    LET source == get_source_code(source_file.file)
    IN  IF source = None THEN Raised("ValueError")
        ELSE IF ~detailed_extraction
        THEN Returned(shallow_code_file(repo_path, source_file.file_path, source[1]))
        ELSE LET root == parse_source(source_file.file).tree.root_node
             IN  Returned(extract_code_parts(
                              root, source_file.file_path,
                              detailed_code_file(repo_path, source_file.file_path, source[1]),
                              [j \in 1 .. Len(root.children) |-> NoRaise]).code_file)

\* the extractor of the Python language, which is not part of this code:
\* it returns a unit or fails
local_script_dependencies(repo_path, source_file, detailed_extraction) ==
    IF source_file.extractor_fails THEN Raised("Exception")
    ELSE Returned([id |-> <<"uuid5", source_file.file_path>>,
                   name |-> SliceFrom(source_file.file_path, Len(repo_path) + 1),
                   file_path |-> source_file.file_path, language |-> "python",
                   source_code |-> None])

\* the coroutine the driver creates for a source file, run to its end
task_outcome(repo_path, source_file, detailed_extraction) ==
    IF source_file.language = "python"
    THEN local_script_dependencies(repo_path, source_file, detailed_extraction)
    ELSE IF source_file.language = "typescript"
    THEN typescript_dependencies(repo_path, source_file, detailed_extraction)
    ELSE make_codefile_stub(repo_path, source_file)

\* variant: the chunk is everything from i on
chunk_of_unbounded(source_files, i) == SubSeq(source_files, i + 1, Len(source_files))

\* source_files[i : i + chunk_size]
chunk_of(source_files, i) ==
    SubSeq(source_files, i + 1,
           IF i + chunk_size < Len(source_files) THEN i + chunk_size ELSE Len(source_files))

\* variant: gather without return_exceptions, the first exception in the
\* list is raised to the driver
gather_raises(results) ==
    [raised |-> \E j \in 1 .. Len(results) : ~results[j][1].ok, results |-> results]

\* asyncio.gather(*tasks, return_exceptions=True): what the driver gets
\* once every task is done, exceptions being results like the others
gather(results) == [raised |-> FALSE, results |-> results]

DriverInit ==
    /\ files = [q \in Paths |-> Readable(<<>>)]
    /\ args = [t \in Tasks |-> NoArgs]
    /\ pc = [t \in Tasks |-> "off"]
    /\ parsed_files = [k \in Parsers |-> EmptyCache]
    /\ result = [t \in Tasks |-> None]
    /\ reads = [t \in Tasks |-> 0]
    /\ raised = [t \in Tasks |-> <<>>]
    /\ error_log = [t \in Tasks |-> <<>>]
    /\ \E fs \in FileLists(RepoFileChoices, 1, MaxFiles), d \in BOOLEAN :
           driver = [NoDriver EXCEPT !.pc = "start", !.repo_path = RepoPath,
                                     !.detailed_extraction = d, !.repo_files = fs]

UnchangedButDriver == UNCHANGED <<files, pc, args, parsed_files, result, reads, raised, error_log>>

\* the repository node is created and yielded first
DriverYieldRepository ==
    /\ driver.pc = "start"
    /\ driver' = [driver EXCEPT !.pc = "listing",
                                 !.yielded = Append(@, Repository(driver.repo_path))]
    /\ UnchangedButDriver

\* get_source_code_files returns the list of source files
DriverListFiles ==
    /\ driver.pc = "listing"
    /\ driver' = [driver EXCEPT !.pc = "chunk", !.source_files = driver.repo_files, !.i = 0]
    /\ UnchangedButDriver

\* the loop takes the next chunk and creates one coroutine per file
DriverCreateTasks ==
    /\ driver.pc = "chunk"
    /\ driver.i < Len(driver.source_files)
    /\ LET chunk == chunk_of(driver.source_files, driver.i)
       IN  driver' = [driver EXCEPT !.pc = "gather",
                                    !.tasks = [j \in 1 .. Len(chunk) |-> "created"],
                                    !.results = [j \in 1 .. Len(chunk) |-> None]]
    /\ UnchangedButDriver

\* a coroutine of the chunk starts and runs to its file read
TaskStart(j) ==
    /\ driver.pc = "gather"
    /\ j \in 1 .. Len(driver.tasks)
    /\ driver.tasks[j] = "created"
    /\ driver' = [driver EXCEPT !.tasks[j] = "reading"]
    /\ UnchangedButDriver

\* a coroutine of the chunk ends, with a unit or with an exception
TaskFinish(j) ==
    /\ driver.pc = "gather"
    /\ j \in 1 .. Len(driver.tasks)
    /\ driver.tasks[j] = "reading"
    /\ driver' = [driver EXCEPT
                     !.tasks[j] = "done",
                     !.results[j] = Some(task_outcome(driver.repo_path,
                                                      driver.source_files[driver.i + j],
                                                      driver.detailed_extraction))]
    /\ UnchangedButDriver

\* every coroutine of the chunk is done: gather hands over the results
DriverGathered ==
    /\ driver.pc = "gather"
    /\ \A j \in 1 .. Len(driver.tasks) : driver.tasks[j] = "done"
    /\ driver' = [driver EXCEPT
                     !.pc = IF gather(driver.results).raised THEN "raised" ELSE "yielding",
                     !.results = gather(driver.results).results,
                     !.k = 1]
    /\ UnchangedButDriver

\* the result loop meets an exception and goes on to the next result
DriverSkipFailed ==
    /\ driver.pc = "yielding"
    /\ driver.k <= Len(driver.results)
    /\ ~driver.results[driver.k][1].ok
    /\ driver' = [driver EXCEPT !.k = @ + 1]
    /\ UnchangedButDriver

\* the result loop meets a unit, attaches the repository and yields it
DriverYieldCodeFile ==
    /\ driver.pc = "yielding"
    /\ driver.k <= Len(driver.results)
    /\ driver.results[driver.k][1].ok
    /\ driver' = [driver EXCEPT
                     !.k = @ + 1,
                     !.yielded = Append(@, code_file_node(
                                               driver.results[driver.k][1].value[1],
                                               driver.source_files[driver.i + driver.k].file_path,
                                               driver.yielded[1]))]
    /\ UnchangedButDriver

\* the results of the chunk are handled: on to the next chunk
DriverNextChunk ==
    /\ driver.pc = "yielding"
    /\ driver.k > Len(driver.results)
    /\ driver' = [driver EXCEPT !.pc = "chunk", !.i = @ + chunk_size,
                                 !.tasks = <<>>, !.results = <<>>, !.k = 0]
    /\ UnchangedButDriver

\* no file is left: the generator ends
DriverFinish ==
    /\ driver.pc = "chunk"
    /\ driver.i >= Len(driver.source_files)
    /\ driver' = [driver EXCEPT !.pc = "done"]
    /\ UnchangedButDriver

DriverNext ==
    \/ DriverYieldRepository
    \/ DriverListFiles
    \/ DriverCreateTasks
    \/ \E j \in 1 .. MaxFiles + 1 : TaskStart(j)
    \/ \E j \in 1 .. MaxFiles + 1 : TaskFinish(j)
    \/ DriverGathered
    \/ DriverSkipFailed
    \/ DriverYieldCodeFile
    \/ DriverNextChunk
    \/ DriverFinish

DriverSpec == DriverInit /\ [][DriverNext]_vars

(***************************************************************************)
(* Properties.                                                             *)
(***************************************************************************)
Finished(t) == pc[t] \in {"returned", "raised"}
UnitOf(t) == result[t][1]
FileOf(t) == files[args[t].script_path]
\* what the invocation's parser holds for its file
ParsedOf(t) == parsed_files[t][args[t].script_path][1]
RootOf(t) == ParsedOf(t).tree.root_node

\* the text between two points of a source given as lines
RECURSIVE TextAt(_, _, _)
TextAt(lines, start_point, end_point) ==
    IF start_point[1] = end_point[1]
    THEN SubSeq(lines[start_point[1] + 1], start_point[2] + 1, end_point[2])
    ELSE SubSeq(lines[start_point[1] + 1], start_point[2] + 1, Len(lines[start_point[1] + 1]))
         \o "\n" \o TextAt(lines, <<start_point[1] + 1, 0>>, end_point)

\* the records of a list that come from the top-level child on a row
OnRow(records, row) == SelectSeq(records, LAMBDA r : r.start_point[1] = row)
NotOnRows(records, rows) == SelectSeq(records, LAMBDA r : r.start_point[1] \notin rows)
Names(records) == [i \in 1 .. Len(records) |-> records[i].name]

\* a detailed invocation has returned and child i of its tree did not raise
Walked(t, i) ==
    /\ pc[t] = "returned"
    /\ args[t].detailed_extraction
    /\ i \in 1 .. Len(RootOf(t).children)
    /\ raised[t][i] = NoRaise

\* C1: a returned shallow unit has its raw source and every record list
\* empty, a returned detailed unit has no raw source, no returned unit has
\* both a raw source and a record, and a readable file always yields a unit
C1_ShallowOrDetailed ==
    \A t \in Tasks :
        /\ (Finished(t) /\ FileOf(t).readable) => pc[t] = "returned"
        /\ pc[t] = "returned" =>
               /\ ~args[t].detailed_extraction =>
                      /\ UnitOf(t).source_code # None
                      /\ \A l \in RecordLists : UnitOf(t)[l] = <<>>
               /\ args[t].detailed_extraction => UnitOf(t).source_code = None
               /\ ~(UnitOf(t).source_code # None /\ \E l \in RecordLists : UnitOf(t)[l] # <<>>)

\* a detailed unit with records of a class and its methods has been returned
C1_Witness ==
    \E t \in Tasks :
        /\ pc[t] = "returned"
        /\ args[t].detailed_extraction
        /\ UnitOf(t).provides_method_definition # <<>>
        /\ UnitOf(t).source_code = None

\* C2: the raw text of every record of a returned detailed unit is the text
\* of the file between the record's own start and end points
C2_RawTextAtSpan ==
    \A t \in Tasks :
        (pc[t] = "returned" /\ args[t].detailed_extraction) =>
            \A l \in RecordLists :
                \A i \in 1 .. Len(UnitOf(t)[l]) :
                    UnitOf(t)[l][i].source_code =
                        TextAt(ParsedOf(t).source_code,
                               UnitOf(t)[l][i].start_point, UnitOf(t)[l][i].end_point)

\* a unit holds a function record that starts inside an export statement on
\* the second line of its file
C2_Witness ==
    \E t \in Tasks :
        /\ pc[t] = "returned"
        /\ \E i \in 1 .. Len(UnitOf(t).provides_function_definition) :
               /\ UnitOf(t).provides_function_definition[i].start_point[1] = 1
               /\ UnitOf(t).provides_function_definition[i].start_point[2] > 0

RaisedRows(t) == {i - 1 : i \in {j \in DOMAIN raised[t] : raised[t][j] # NoRaise}}

TreeWithoutRows(root, rows) ==
    [root EXCEPT !.children = SelectSeq(@, LAMBDA c : c.start_point[1] \notin rows)]

\* C3: the walk never raises to the invocation, and what the children that
\* did not raise contributed is what a walk of the tree without the raising
\* children produces: every child after a raising one is still processed
C3_WalkSurvivesRaise ==
    \A t \in Tasks :
        (Finished(t) /\ args[t].detailed_extraction /\ FileOf(t).readable) =>
            /\ pc[t] = "returned"
            /\ LET rest == TreeWithoutRows(RootOf(t), RaisedRows(t))
                   alone == extract_code_parts(
                                rest, args[t].script_path,
                                TypeScriptCodeFile(args[t].script_path, UnitOf(t).name, None),
                                [i \in 1 .. Len(rest.children) |-> NoRaise])
               IN  /\ ~alone.escaped
                   /\ \A l \in RecordLists :
                          NotOnRows(UnitOf(t)[l], RaisedRows(t)) = alone.code_file[l]
            /\ Len(error_log[t]) = Cardinality(RaisedRows(t))

\* the first child raised and the unit holds records of the second child
C3_Witness ==
    \E t \in Tasks :
        /\ pc[t] = "returned"
        /\ args[t].detailed_extraction
        /\ Len(RootOf(t).children) = 2
        /\ raised[t][1] # NoRaise
        /\ raised[t][2] = NoRaise
        /\ \E l \in RecordLists : OnRow(UnitOf(t)[l], 1) # <<>>

\* C4: when the file cannot be read the invocation ends by raising, in
\* either mode, returns no unit, and has read the file exactly once
C4_ReadErrorPropagates ==
    \A t \in Tasks :
        /\ reads[t] <= 1
        /\ (Finished(t) /\ ~FileOf(t).readable) =>
               /\ pc[t] = "raised"
               /\ result[t] = None
               /\ reads[t] = 1

\* a detailed invocation on an unreadable file has raised
C4_Witness ==
    \E t \in Tasks :
        /\ pc[t] = "raised"
        /\ args[t].detailed_extraction
        /\ ~FileOf(t).readable

\* C5: once a path is in the cache of the parser its entry never changes,
\* and a call for it returns that entry at once, without a read
C5_CacheNeverInvalidated ==
    [][\A file_path \in Paths :
          parsed_files[SharedParser][file_path] # None =>
              /\ parsed_files'[SharedParser][file_path] = parsed_files[SharedParser][file_path]
              /\ \A t \in Tasks :
                     (pc[t] = "idle" /\ pc'[t] # "idle" /\ args'[t].script_path = file_path) =>
                         /\ pc'[t] = "returned"
                         /\ result'[t] = parsed_files[SharedParser][file_path]
                         /\ reads'[t] = 0]_vars

\* a call returned the cached pair of a file that has since been rewritten
\* or made unreadable
C5_Witness ==
    \E t \in Tasks :
        /\ pc[t] = "returned"
        /\ reads[t] = 0
        /\ result[t] # None
        /\ result[t] = parsed_files[SharedParser][args[t].script_path]
        /\ \/ ~FileOf(t).readable
           \/ SourceOf(FileOf(t).content) # result[t][1].source_code

NodeTypes(node) == [i \in 1 .. Len(node.children) |-> node.children[i].type]
ChildOf(t, i) == RootOf(t).children[i]
\* the text of a string literal between its quotes
Unquoted(text) == SubSeq(text, 2, Len(text) - 1)
ModuleOf(node) == Unquoted(find_type(node.children, "string")[1].text)
NoRecordOnRowExcept(t, row, lists) ==
    \A l \in RecordLists \ lists : OnRow(UnitOf(t)[l], row) = <<>>

\* an import statement whose clause is a list of named imports and nothing else
IsNamedImport(node) ==
    /\ node.type = "import_statement"
    /\ find_type(node.children, "string") # None
    /\ find_type(node.children, "import_clause") # None
    /\ NodeTypes(find_type(node.children, "import_clause")[1]) = <<"named_imports">>

\* an export statement with a clause and a module to take the names from
IsNamedReexport(node) ==
    /\ node.type = "export_statement"
    /\ find_type(node.children, "string") # None
    /\ find_type(node.children, "export_clause") # None

SpecifiersOf(node) ==
    IF node.type = "import_statement"
    THEN children_of_type(
             find_type(find_type(node.children, "import_clause")[1].children, "named_imports")[1],
             {"import_specifier"})
    ELSE children_of_type(find_type(node.children, "export_clause")[1], {"export_specifier"})

\* the name a specifier binds: its alias if it has one, its name otherwise
BoundName(specifier) ==
    IF child_by_field_name(specifier, "alias") # None
    THEN child_by_field_name(specifier, "alias")[1].text
    ELSE child_by_field_name(specifier, "name")[1].text

\* C6: a named import or a named re-export with n specifiers yields n import
\* records, in the order of the specifiers, each named by the alias of its
\* specifier, or by its name when it has no alias, and each carrying the
\* module of the statement
C6_OneImportPerSpecifier ==
    \A t \in Tasks :
        \A i \in 1 .. MaxChildren + 1 :
            (Walked(t, i) /\ (IsNamedImport(ChildOf(t, i)) \/ IsNamedReexport(ChildOf(t, i)))) =>
                LET recs == OnRow(UnitOf(t).depends_on, i - 1)
                    specs == SpecifiersOf(ChildOf(t, i))
                IN  /\ Len(recs) = Len(specs)
                    /\ \A k \in 1 .. Len(recs) :
                           /\ recs[k].name = BoundName(specs[k])
                           /\ recs[k].module = ModuleOf(ChildOf(t, i))

\* a binding of one variable or pattern to a call of require on a string
IsRequireBinding(node) ==
    /\ node.type = "lexical_declaration"
    /\ Len(children_of_type(node, {"variable_declarator"})) = 1
    /\ LET value == child_by_field_name(children_of_type(node, {"variable_declarator"})[1], "value")
       IN  /\ value # None
           /\ value[1].type = "call_expression"
           /\ child_by_field_name(value[1], "function") # None
           /\ child_by_field_name(value[1], "function")[1].text = "require"
           /\ child_by_field_name(value[1], "function")[1].type = "identifier"
           /\ child_by_field_name(value[1], "arguments") # None
           /\ find_type(child_by_field_name(value[1], "arguments")[1].children, "string") # None

RequireModule(node) ==
    Unquoted(find_type(
        child_by_field_name(
            child_by_field_name(children_of_type(node, {"variable_declarator"})[1], "value")[1],
            "arguments")[1].children,
        "string")[1].text)

\* the names a binding target binds: the identifier itself, or, for a
\* pattern, each shorthand property and the target of each aliased property
BoundByPattern(name_node) ==
    IF name_node.type = "identifier" THEN <<name_node.text>>
    ELSE IF name_node.type = "object_pattern"
    THEN Flatten([k \in 1 .. Len(name_node.children) |->
             LET property == name_node.children[k]
             IN  IF property.type = "shorthand_property_identifier_pattern"
                 THEN <<property.text>>
                 ELSE IF /\ property.type = "pair_pattern"
                         /\ child_by_field_name(property, "value") # None
                         /\ child_by_field_name(property, "value")[1].type = "identifier"
                 THEN <<child_by_field_name(property, "value")[1].text>>
                 ELSE <<>>])
    ELSE <<>>

\* C7: a require binding yields one import record per bound name, with the
\* module required: the variable of a simple binding, each shorthand
\* property, and the alias b of each aliased property { a: b }, never a
C7_RequireBindings ==
    \A t \in Tasks :
        \A i \in 1 .. MaxChildren + 1 :
            (Walked(t, i) /\ IsRequireBinding(ChildOf(t, i))) =>
                LET recs == OnRow(UnitOf(t).depends_on, i - 1)
                    target == child_by_field_name(
                                  children_of_type(ChildOf(t, i), {"variable_declarator"})[1], "name")[1]
                IN  /\ Names(recs) = BoundByPattern(target)
                    /\ \A k \in 1 .. Len(recs) : recs[k].module = RequireModule(ChildOf(t, i))
                    /\ NoRecordOnRowExcept(t, i - 1, {"depends_on"})

\* the destructured require of the file has been walked: two records, the
\* second under the alias
C7_Witness ==
    \E t \in Tasks :
        \E i \in 1 .. MaxChildren + 1 :
            /\ Walked(t, i)
            /\ IsRequireBinding(ChildOf(t, i))
            /\ find_type(ChildOf(t, i).children, "variable_declarator")[1].children[1].type = "object_pattern"
            /\ Names(OnRow(UnitOf(t).depends_on, i - 1)) = <<"a", "c">>

IsExportDefaultFunction(node) ==
    /\ node.type = "export_statement"
    /\ NodeTypes(node) = <<"export", "default", "function_declaration">>

\* C8: export default function f yields one function record named f, one
\* export record named default and flagged as default, and nothing else
C8_ExportDefaultFunction ==
    \A t \in Tasks :
        \A i \in 1 .. MaxChildren + 1 :
            (Walked(t, i) /\ IsExportDefaultFunction(ChildOf(t, i))) =>
                LET functions == OnRow(UnitOf(t).provides_function_definition, i - 1)
                    exported == OnRow(UnitOf(t).exports, i - 1)
                IN  /\ Names(functions) =
                           <<child_by_field_name(ChildOf(t, i).children[3], "name")[1].text>>
                    /\ Len(exported) = 1
                    /\ exported[1].name = "default"
                    /\ exported[1].is_default
                    /\ NoRecordOnRowExcept(t, i - 1, {"provides_function_definition", "exports"})

\* export default function f has been walked after another statement
C8_Witness ==
    \E t \in Tasks :
        /\ Walked(t, 2)
        /\ IsExportDefaultFunction(ChildOf(t, 2))
        /\ Names(OnRow(UnitOf(t).provides_function_definition, 1)) = <<"f">>

IsWildcardReexport(node) ==
    /\ node.type = "export_statement"
    /\ NodeTypes(node) = <<"export", "*", "from", "string", ";">>

C10_ConstructorFlag ==
    \A t \in Tasks :
        pc[t] = "returned" =>
            \A i \in 1 .. Len(UnitOf(t).provides_method_definition) :
                UnitOf(t).provides_method_definition[i].is_constructor
                    <=> UnitOf(t).provides_method_definition[i].name = "constructor"

\* a unit holds a static member named constructor next to other members
C10_Witness ==
    \E t \in Tasks :
        /\ pc[t] = "returned"
        /\ \E i, j \in 1 .. Len(UnitOf(t).provides_method_definition) :
               /\ UnitOf(t).provides_method_definition[i].name = "constructor"
               /\ UnitOf(t).provides_method_definition[i].is_static
               /\ UnitOf(t).provides_method_definition[j].name # "constructor"
               /\ UnitOf(t).provides_method_definition[j].is_getter

\* an import statement with no module string, or with no import clause
IsImportWithoutModule(node) ==
    /\ node.type = "import_statement"
    /\ "string" \notin {NodeTypes(node)[k] : k \in 1 .. Len(node.children)}

IsBareImport(node) ==
    /\ node.type = "import_statement"
    /\ "import_clause" \notin {NodeTypes(node)[k] : k \in 1 .. Len(node.children)}

\* C11: an import statement without a module string yields no record,
\* whatever its clause, and so does a bare import of a module; the detailed
\* extraction of a readable file holding such a statement returns a unit
C11_ImportWithoutModule ==
    \A t \in Tasks :
        (Finished(t) /\ args[t].detailed_extraction /\ FileOf(t).readable) =>
            /\ pc[t] = "returned"
            /\ \A i \in 1 .. Len(RootOf(t).children) :
                   (IsImportWithoutModule(ChildOf(t, i)) \/ IsBareImport(ChildOf(t, i))) =>
                       \A l \in RecordLists : OnRow(UnitOf(t)[l], i - 1) = <<>>

\* a named import without its module string has been walked, after a
\* statement that yielded import records, and the unit has been returned
C11_Witness ==
    \E t \in Tasks :
        /\ Walked(t, 1)
        /\ Walked(t, 2)
        /\ IsImportWithoutModule(ChildOf(t, 2))
        /\ find_type(ChildOf(t, 2).children, "import_clause") # None
        /\ UnitOf(t).depends_on # <<>>
        /\ OnRow(UnitOf(t).depends_on, 1) = <<>>

\* every node of a tree
RECURSIVE Descendants(_)
Descendants(node) ==
    {node} \union UNION {Descendants(node.children[k]) : k \in 1 .. Len(node.children)}

\* the class member a method record was made from
MemberOf(t, record) ==
    CHOOSE m \in Descendants(RootOf(t)) :
        /\ m.type = "method_definition"
        /\ m.start_point = record.start_point
        /\ m.end_point = record.end_point

HasChildOfType(node, ty) == \E k \in 1 .. Len(node.children) : node.children[k].type = ty

HasPrivateModifier(member) ==
    \E k \in 1 .. Len(member.children) :
        /\ member.children[k].type = "accessibility_modifier"
        /\ member.children[k].text = "private"

\* C12: for a member with a regular name token, each of is_static, is_async,
\* is_getter and is_setter is set exactly when the member carries the static,
\* async, get or set modifier token, and is_private exactly when it carries
\* the accessibility modifier private; the member's own name sets no flag
C12_ModifierFlags ==
    \A t \in Tasks :
        pc[t] = "returned" =>
            \A i \in 1 .. Len(UnitOf(t).provides_method_definition) :
                LET record == UnitOf(t).provides_method_definition[i]
                    member == MemberOf(t, record)
                IN  HasChildOfType(member, "property_identifier") =>
                        /\ record.is_static <=> HasChildOfType(member, "static")
                        /\ record.is_async <=> HasChildOfType(member, "async")
                        /\ record.is_getter <=> HasChildOfType(member, "get")
                        /\ record.is_setter <=> HasChildOfType(member, "set")
                        /\ record.is_private <=> HasPrivateModifier(member)

DeclaratorsOf(node) == children_of_type(node, {"variable_declarator"})

\* a declarator whose initializer is an arrow function or a function expression
BindsFunction(declarator) ==
    /\ child_by_field_name(declarator, "value") # None
    /\ child_by_field_name(declarator, "value")[1].type \in {"arrow_function", "function_expression"}

\* C13: a binding statement that declares more than one variable yields no
\* function record, even when its first variable is bound to an arrow
\* function, and neither does a binding whose initializer is not a function
C13_NoFunctionFromMultipleBinding ==
    \A t \in Tasks :
        \A i \in 1 .. MaxChildren + 1 :
            (Walked(t, i) /\ ChildOf(t, i).type = "lexical_declaration") =>
                LET declarators == DeclaratorsOf(ChildOf(t, i))
                IN  (Len(declarators) > 1 \/ ~BindsFunction(declarators[1])) =>
                        OnRow(UnitOf(t).provides_function_definition, i - 1) = <<>>

\* the binding statement of a top-level child: the child itself, or the
\* binding an export statement wraps
BindingOf(node) ==
    IF node.type = "lexical_declaration" THEN Some(node)
    ELSE IF node.type = "export_statement" THEN find_type(node.children, "lexical_declaration")
    ELSE None

\* a binding of one variable to an arrow function or a function expression
IsFunctionBinding(binding) ==
    /\ Len(DeclaratorsOf(binding)) = 1
    /\ child_by_field_name(DeclaratorsOf(binding)[1], "name") # None
    /\ child_by_field_name(DeclaratorsOf(binding)[1], "name")[1].type = "identifier"
    /\ BindsFunction(DeclaratorsOf(binding)[1])

\* the names function expressions of a tree carry themselves
InnerNames(root) ==
    {child_by_field_name(n, "name")[1].text :
        n \in {m \in Descendants(root) :
                  m.type = "function_expression" /\ child_by_field_name(m, "name") # None}}

\* C14: a binding of one variable to an arrow function or to a named or
\* anonymous function expression yields exactly one function record, named
\* by the variable bound; the inner name of a function expression is the
\* name of no function record
C14_FunctionNamedByBinding ==
    \A t \in Tasks :
        /\ \A i \in 1 .. MaxChildren + 1 :
               (Walked(t, i) /\ BindingOf(ChildOf(t, i)) # None
                    /\ IsFunctionBinding(BindingOf(ChildOf(t, i))[1])) =>
                   Names(OnRow(UnitOf(t).provides_function_definition, i - 1)) =
                       <<child_by_field_name(
                             DeclaratorsOf(BindingOf(ChildOf(t, i))[1])[1], "name")[1].text>>
        /\ (pc[t] = "returned" /\ args[t].detailed_extraction) =>
               \A k \in 1 .. Len(UnitOf(t).provides_function_definition) :
                   UnitOf(t).provides_function_definition[k].name \notin InnerNames(RootOf(t))

\* a binding to a named function expression has been walked, and recorded
\* under the name of its variable
C14_Witness ==
    \E t \in Tasks :
        \E i \in 1 .. MaxChildren + 1 :
            /\ Walked(t, i)
            /\ BindingOf(ChildOf(t, i)) # None
            /\ IsFunctionBinding(BindingOf(ChildOf(t, i))[1])
            /\ InnerNames(ChildOf(t, i)) = {"named"}
            /\ Names(OnRow(UnitOf(t).provides_function_definition, i - 1)) = <<"bar">>

\* the list the record of a declaration goes to
ListOfDeclaration(ty) ==
    IF ty = "function_declaration" THEN "provides_function_definition"
    ELSE IF ty \in {"class_declaration", "abstract_class_declaration"} THEN "provides_class_definition"
    ELSE IF ty = "interface_declaration" THEN "provides_interface_definition"
    ELSE IF ty = "type_alias_declaration" THEN "provides_type_alias"
    ELSE "provides_enum_definition"

DeclarationTypes ==
    {"function_declaration", "class_declaration", "abstract_class_declaration",
     "interface_declaration", "type_alias_declaration", "enum_declaration"}

\* an export statement that is no re-export and wraps a named declaration
IsExportOfDeclaration(node) ==
    /\ node.type = "export_statement"
    /\ ~HasChildOfType(node, "string")
    /\ \E k \in 1 .. Len(node.children) :
           /\ node.children[k].type \in DeclarationTypes
           /\ Truthy(IF child_by_field_name(node.children[k], "name") = None THEN None
                     ELSE Some(child_by_field_name(node.children[k], "name")[1].text))

\* C15: an export statement, default or not, that is no re-export and wraps
\* a function, class, abstract class, interface, type alias or enum
\* declaration yields an export record for the wrapper and the record of
\* the declaration it wraps
C15_ExportAndDeclaration ==
    \A t \in Tasks :
        \A i \in 1 .. MaxChildren + 1 :
            (Walked(t, i) /\ IsExportOfDeclaration(ChildOf(t, i))) =>
                LET inner == children_of_type(ChildOf(t, i), DeclarationTypes)[1]
                IN  /\ OnRow(UnitOf(t).exports, i - 1) # <<>>
                    /\ Names(OnRow(UnitOf(t)[ListOfDeclaration(inner.type)], i - 1)) =
                           <<child_by_field_name(inner, "name")[1].text>>

\* C16: a member whose name is a private-field-style token #foo yields a
\* method record named foo, without the marker, and flagged private, with
\* or without an accessibility modifier
C16_PrivateNameStripped ==
    \A t \in Tasks :
        (pc[t] = "returned" /\ args[t].detailed_extraction) =>
            \A m \in {n \in Descendants(RootOf(t)) :
                          n.type = "method_definition"
                          /\ HasChildOfType(n, "private_property_identifier")
                          /\ raised[t][n.start_point[1] + 1] = NoRaise} :
                \E i \in 1 .. Len(UnitOf(t).provides_method_definition) :
                    LET record == UnitOf(t).provides_method_definition[i]
                    IN  /\ record.start_point = m.start_point
                        /\ record.end_point = m.end_point
                        /\ record.name =
                               LStrip(find_type(m.children, "private_property_identifier")[1].text, {"#"})
                        /\ record.is_private

\* C17: every record of a returned unit, of every kind, has a name that is
\* not empty, also when the name token of its declaration has an empty text
C17_NamesNotEmpty ==
    \A t \in Tasks :
        pc[t] = "returned" =>
            \A l \in RecordLists :
                \A i \in 1 .. Len(UnitOf(t)[l]) : UnitOf(t)[l][i].name # ""

\* the path of a file relative to a directory above it
RelativeTo(root, path) == SliceFrom(path, Len(RStrip(root, {"/"})) + 1)

\* C18: the name of a returned unit is the path of the file relative to the
\* repository root, whole and without a leading separator, whether or not
\* the root is written with a trailing separator; identity, file path,
\* language and the file path of every record do not depend on the root
C18_NameRelativeToRoot ==
    \A t \in Tasks :
        pc[t] = "returned" =>
            /\ UnitOf(t).name = RelativeTo(args[t].repo_path, args[t].script_path)
            /\ UnitOf(t).id = <<"uuid5", args[t].script_path>>
            /\ UnitOf(t).file_path = args[t].script_path
            /\ UnitOf(t).language = "typescript"
            /\ \A l \in RecordLists :
                   \A i \in 1 .. Len(UnitOf(t)[l]) :
                       UnitOf(t)[l][i].file_path = args[t].script_path

\* the texts of the tokens of a node, in source order
RECURSIVE LeafTexts(_)
LeafTexts(node) ==
    IF node.children = <<>> THEN <<node.text>>
    ELSE Flatten([k \in 1 .. Len(node.children) |-> LeafTexts(node.children[k])])

\* the elements of a occur in b in the order they have in a
RECURSIVE IsSubsequence(_, _)
IsSubsequence(a, b) ==
    IF a = <<>> THEN TRUE
    ELSE IF b = <<>> THEN FALSE
    ELSE IF Head(a) = Head(b) THEN IsSubsequence(Tail(a), Tail(b))
    ELSE IsSubsequence(a, Tail(b))

PointBefore(p, q) == p[1] < q[1] \/ (p[1] = q[1] /\ p[2] < q[2])

\* C19: in every list of a detailed unit the record of an earlier top-level
\* statement comes before the record of a later one, the records of one
\* statement are named in the order the names appear in the statement, and
\* the method records of one class follow the order of the class body
C19_SourceOrder ==
    \A t \in Tasks :
        (pc[t] = "returned" /\ args[t].detailed_extraction) =>
            /\ \A l \in RecordLists :
                   \A i, j \in 1 .. Len(UnitOf(t)[l]) :
                       i < j => UnitOf(t)[l][i].start_point[1] <= UnitOf(t)[l][j].start_point[1]
            /\ \A l \in {"depends_on", "exports"} :
                   \A r \in 1 .. Len(RootOf(t).children) :
                       IsSubsequence(Names(OnRow(UnitOf(t)[l], r - 1)), LeafTexts(ChildOf(t, r)))
            /\ \A i, j \in 1 .. Len(UnitOf(t).provides_method_definition) :
                   i < j => PointBefore(UnitOf(t).provides_method_definition[i].start_point,
                                        UnitOf(t).provides_method_definition[j].start_point)

\* a unit holds the import records of two statements, two of them of the
\* first statement
C19_Witness ==
    \E t \in Tasks :
        /\ Walked(t, 1)
        /\ Walked(t, 2)
        /\ Len(OnRow(UnitOf(t).depends_on, 0)) = 2
        /\ Len(OnRow(UnitOf(t).depends_on, 1)) >= 1

\* the unit an invocation returns for its file when it runs alone, its
\* walk raising where the walk of invocation t raised
AloneUnit(t, raise_at) ==
    IF args[t].detailed_extraction
    THEN extract_code_parts(
             TreeOf(FileOf(t).content).root_node, args[t].script_path,
             TypeScriptCodeFile(args[t].script_path,
                                SliceFrom(args[t].script_path, Len(args[t].repo_path) + 1), None),
             raise_at).code_file
    ELSE TypeScriptCodeFile(args[t].script_path,
                            SliceFrom(args[t].script_path, Len(args[t].repo_path) + 1),
                            Some(SourceOf(FileOf(t).content)))

\* C20: whatever the interleaving of two invocations for different files, a
\* step of one invocation changes nothing of the other, neither its parser
\* and cache nor its progress and result, and no parser shared by both; an
\* invocation that returns returns the unit it returns alone, all of whose
\* records are of its own file, and an unreadable file fails its own
\* invocation only
C20_ConcurrentExtractionsIndependent ==
    [][\A t \in Tasks :
          pc'[t] # pc[t] =>
              /\ \A u \in Tasks \ {t} :
                     /\ parsed_files'[u] = parsed_files[u]
                     /\ pc'[u] = pc[u]
                     /\ result'[u] = result[u]
                     /\ reads'[u] = reads[u]
                     /\ error_log'[u] = error_log[u]
              /\ parsed_files'[SharedParser] = parsed_files[SharedParser]
              /\ \A file_path \in Paths \ {args[t].script_path} :
                     parsed_files'[t][file_path] = None
              /\ pc'[t] = "returned" =>
                     /\ FileOf(t).readable
                     /\ result'[t] = Some(AloneUnit(t, raised'[t]))
                     /\ \A l \in RecordLists :
                            \A i \in 1 .. Len(result'[t][1][l]) :
                                result'[t][1][l][i].file_path = args[t].script_path
              /\ pc'[t] = "raised" => ~FileOf(t).readable]_vars

\* one invocation is suspended at its file read while the other, called
\* for another file, has returned a unit with records
C20_Witness ==
    \E t \in Tasks :
        \E u \in Tasks \ {t} :
            /\ pc[t] = "reading"
            /\ args[t].detailed_extraction
            /\ FileOf(t).readable
            /\ FileOf(t).content # <<>>
            /\ pc[u] = "returned"
            /\ args[u].script_path # args[t].script_path
            /\ UnitOf(u).provides_method_definition # <<>>

\* the extraction of a source file fails
ExtractionFails(source_file) ==
    \/ source_file.language = "typescript" /\ ~source_file.file.readable
    \/ source_file.language = "python" /\ source_file.extractor_fails

YieldedPaths == [j \in 1 .. Len(driver.yielded) - 1 |-> driver.yielded[j + 1].path]

\* the paths of the first n source files whose extraction does not fail
RECURSIVE ExtractablePaths(_, _)
ExtractablePaths(source_files, n) ==
    IF n = 0 THEN <<>>
    ELSE ExtractablePaths(source_files, n - 1)
         \o (IF ExtractionFails(source_files[n]) THEN <<>> ELSE <<source_files[n].file_path>>)

\* C21: the generator never raises because an extraction failed; once it
\* has ended, the code files yielded are those of the source files whose
\* extraction did not fail, all of them, whether they share the chunk of a
\* failed file or come in a later chunk, and no failed file is yielded
C21_FailureIsolation ==
    /\ driver.pc # "raised"
    /\ driver.pc = "done" =>
           YieldedPaths = ExtractablePaths(driver.source_files, Len(driver.source_files))
    /\ \A j \in 2 .. Len(driver.yielded) :
           \A n \in 1 .. Len(driver.source_files) :
               driver.source_files[n].file_path = driver.yielded[j].path =>
                   ~ExtractionFails(driver.source_files[n])

\* the generator has ended after the extraction of the first file failed,
\* and has yielded a file of the same chunk and a file of the next chunk
C21_Witness ==
    /\ driver.pc = "done"
    /\ Len(driver.source_files) > chunk_size
    /\ ExtractionFails(driver.source_files[1])
    /\ ~ExtractionFails(driver.source_files[2])
    /\ ~ExtractionFails(driver.source_files[Len(driver.source_files)])
    /\ Len(driver.yielded) >= 3

\* an export statement with a clause of names, neither default nor re-export
IsNamedExport(node) ==
    /\ node.type = "export_statement"
    /\ ~HasChildOfType(node, "string")
    /\ ~HasChildOfType(node, "default")
    /\ HasChildOfType(node, "export_clause")

\* C22: a named export yields one export record per specifier, in order: a
\* specifier of two identifiers a as b gives name b and local_name a, a
\* specifier of one identifier gives that name and no local_name, and a
\* record has a local_name exactly when its specifier carries an alias
C22_ExportPerSpecifier ==
    \A t \in Tasks :
        \A i \in 1 .. MaxChildren + 1 :
            (Walked(t, i) /\ IsNamedExport(ChildOf(t, i))) =>
                LET recs == OnRow(UnitOf(t).exports, i - 1)
                    specs == SpecifiersOf(ChildOf(t, i))
                IN  /\ Len(recs) = Len(specs)
                    /\ \A k \in 1 .. Len(recs) :
                           LET identifiers == children_of_type(specs[k], {"identifier"})
                           IN  /\ Len(identifiers) = 2 =>
                                      /\ recs[k].name = identifiers[2].text
                                      /\ recs[k].local_name = Some(identifiers[1].text)
                               /\ Len(identifiers) = 1 =>
                                      /\ recs[k].name = identifiers[1].text
                                      /\ recs[k].local_name = None
                               /\ recs[k].local_name # None
                                      <=> child_by_field_name(specs[k], "alias") # None

\* C23: a top-level child whose processing raises contributes no record to
\* the returned unit: nothing appended for it before the exception remains
C23_RaisingChildLeavesNothing ==
    \A t \in Tasks :
        (pc[t] = "returned" /\ args[t].detailed_extraction) =>
            \A l \in RecordLists :
                \A i \in 1 .. Len(UnitOf(t)[l]) :
                    UnitOf(t)[l][i].start_point[1] \notin RaisedRows(t)

\* the record lists that hold declarations
DeclarationLists == RecordLists \ {"depends_on", "exports"}

\* the records among a sequence of appends that go to one list
RecordsFor(appends, list) ==
    LET sel == SelectSeq(appends, LAMBDA a : a.list = list)
    IN  [j \in 1 .. Len(sel) |-> sel[j].rec]

\* the records of one list the declarations wrapped by an export statement
\* give when each is processed as a top-level child of the walk
AsTopLevel(wrapper, script_path, list) ==
    Flatten([k \in 1 .. Len(wrapper.children) |->
        IF wrapper.children[k].type \in DeclarationTypes \union {"lexical_declaration"}
        THEN RecordsFor(child_appends(wrapper.children[k], script_path), list)
        ELSE <<>>])

\* C24: the declaration records (function, class and its methods, interface,
\* type alias, enum) of a declaration wrapped one level inside an export
\* statement that is no re-export are the records the same declaration node
\* gives as a top-level child: same name, span, raw text and flags, the span
\* and text being those of the inner declaration.
C24_WrappedAsTopLevel ==
    \A t \in Tasks :
        \A i \in 1 .. MaxChildren :
            (/\ Walked(t, i)
             /\ ChildOf(t, i).type = "export_statement"
             /\ ~HasChildOfType(ChildOf(t, i), "string")) =>
                \A l \in DeclarationLists :
                    OnRow(UnitOf(t)[l], i - 1) =
                        AsTopLevel(ChildOf(t, i), args[t].script_path, l)

\* an exported class with methods was walked: its class record and method
\* records start after the export keyword
C24_Witness ==
    \E t \in Tasks :
        \E i \in 1 .. MaxChildren :
            /\ Walked(t, i)
            /\ ChildOf(t, i).type = "export_statement"
            /\ ~HasChildOfType(ChildOf(t, i), "string")
            /\ OnRow(UnitOf(t).provides_class_definition, i - 1) # <<>>
            /\ OnRow(UnitOf(t).provides_method_definition, i - 1) # <<>>
            /\ OnRow(UnitOf(t).provides_class_definition, i - 1)[1].start_point
                   # ChildOf(t, i).start_point

\* the node kinds the walk has a branch for
RecognisedKinds ==
    DeclarationTypes \union {"import_statement", "lexical_declaration", "export_statement"}

\* the nodes the walk looks at: the children of the root and the children of
\* an export statement among them that is no re-export
VisitedNodes(root) ==
    {root.children[i] : i \in 1 .. Len(root.children)} \union
    UNION {{root.children[i].children[k] : k \in 1 .. Len(root.children[i].children)} :
              i \in {j \in 1 .. Len(root.children) :
                        /\ root.children[j].type = "export_statement"
                        /\ ~HasChildOfType(root.children[j], "string")}}

\* the declarations, imports and exports nested deeper than that
DeepDeclarations(root) ==
    {n \in Descendants(root) \ ({root} \union VisitedNodes(root)) : n.type \in RecognisedKinds}

\* C25: records come only from the children of the root and from the
\* children of an export statement that is no re-export: no record of a
\* returned unit was made from a declaration nested deeper (in a function
\* body, a namespace, a second export level), and a top-level child of a
\* kind the walk has no branch for leaves every list as it is and logs no
\* error.
C25_OnlyTopLevel ==
    \A t \in Tasks :
        (pc[t] = "returned" /\ args[t].detailed_extraction) =>
            /\ \A l \in RecordLists :
                   \A j \in 1 .. Len(UnitOf(t)[l]) :
                       \A n \in DeepDeclarations(RootOf(t)) :
                           ~(/\ n.start_point = UnitOf(t)[l][j].start_point
                             /\ n.end_point = UnitOf(t)[l][j].end_point)
            /\ \A i \in 1 .. Len(RootOf(t).children) :
                   (Walked(t, i) /\ ChildOf(t, i).type \notin RecognisedKinds) =>
                       NoRecordOnRowExcept(t, i - 1, {})
            /\ Len(error_log[t]) = Cardinality(RaisedRows(t))

\* a function declaration holding another one was walked and gave one
\* record, in a file of two statements
C25_Witness ==
    \E t \in Tasks :
        \E i \in 1 .. MaxChildren :
            /\ Walked(t, i)
            /\ ChildOf(t, i).type = "function_declaration"
            /\ \E n \in DeepDeclarations(RootOf(t)) : n.type = "function_declaration"
            /\ Len(OnRow(UnitOf(t).provides_function_definition, i - 1)) = 1
            /\ Len(RootOf(t).children) = 2

\* C26: on one parser instance, a call that completes its read of a path
\* finds no entry stored for that path (the file is read and parsed once,
\* and a stored entry is not overwritten by a call completing later), and
\* two calls that have returned for the same path hold the identical pair.
C26_SingleReadWhenConcurrent ==
    [][/\ \A t \in Tasks :
              (pc[t] = "reading" /\ pc'[t] = "returned") =>
                  parsed_files[SharedParser][args[t].script_path] = None
       /\ \A t, u \in Tasks :
              (/\ pc'[t] = "returned" /\ pc'[u] = "returned"
               /\ args'[t].script_path = args'[u].script_path) =>
                  result'[t] = result'[u]]_vars

\* C27: a parse call that fails at the read stores nothing: the cache is as
\* it was before the call, without an entry for the failing path and with
\* the entries of the other paths; a call for a path without entry goes to
\* the file again, and its read of a file that is readable by then returns
\* the pair of that file and stores it.
C27_FailedParseLeavesCache ==
    [][\A t \in Tasks :
          LET file_path == args[t].script_path
          IN  /\ (pc[t] = "reading" /\ pc'[t] # "reading" /\ ~files[file_path].readable) =>
                     /\ pc'[t] = "raised"
                     /\ parsed_files' = parsed_files
                     /\ parsed_files'[SharedParser][file_path] = None
              /\ (/\ pc[t] = "idle" /\ pc'[t] # "idle"
                  /\ parsed_files[SharedParser][args'[t].script_path] = None) =>
                     pc'[t] = "reading"
              /\ (pc[t] = "reading" /\ pc'[t] # "reading" /\ files[file_path].readable) =>
                     /\ pc'[t] = "returned"
                     /\ reads'[t] = 1
                     /\ result'[t] = Some(parse_source(files[file_path]))
                     /\ parsed_files'[SharedParser][file_path] = result'[t]]_vars

\* a call has raised at the read while the parser holds the pair of another
\* path and nothing for the failing one
C27_Witness ==
    \E t \in Tasks :
        /\ pc[t] = "raised"
        /\ reads[t] = 1
        /\ parsed_files[SharedParser][args[t].script_path] = None
        /\ \E file_path \in Paths : parsed_files[SharedParser][file_path] # None

ClassKinds == {"class_declaration", "abstract_class_declaration"}

\* the class nodes the walk looks at
VisitedClasses(root) == {n \in VisitedNodes(root) : n.type \in ClassKinds}

\* C28: in a returned unit every method record names a class record of the
\* unit that was made from the class node enclosing the method (the class
\* record has the span of that node, and the node holds the member the
\* method record was made from); where a class declaration gave no class
\* record there is no method record either.
C28_MethodsBelongToClassRecord ==
    \A t \in Tasks :
        (pc[t] = "returned" /\ args[t].detailed_extraction) =>
            /\ \A j \in 1 .. Len(UnitOf(t).provides_method_definition) :
                   LET method == UnitOf(t).provides_method_definition[j]
                   IN  \E k \in 1 .. Len(UnitOf(t).provides_class_definition) :
                           LET class == UnitOf(t).provides_class_definition[k]
                           IN  /\ class.name = method.class_name
                               /\ \E n \in VisitedClasses(RootOf(t)) :
                                      /\ n.start_point = class.start_point
                                      /\ n.end_point = class.end_point
                                      /\ MemberOf(t, method) \in Descendants(n)
            /\ \A i \in 1 .. Len(RootOf(t).children) :
                   OnRow(UnitOf(t).provides_class_definition, i - 1) = <<>> =>
                       OnRow(UnitOf(t).provides_method_definition, i - 1) = <<>>

\* a unit holds method records, and a class declaration with members and
\* without a name was walked and gave neither class nor method record
C28_Witness ==
    \E t \in Tasks :
        \E i \in 1 .. MaxChildren :
            /\ Walked(t, i)
            /\ ChildOf(t, i).type \in ClassKinds
            /\ \E m \in Descendants(ChildOf(t, i)) : m.type = "method_definition"
            /\ OnRow(UnitOf(t).provides_class_definition, i - 1) = <<>>
            /\ OnRow(UnitOf(t).provides_method_definition, i - 1) = <<>>
            /\ UnitOf(t).provides_method_definition # <<>>

\* the coroutines of the driver that have started and not ended
InFlight == {j \in 1 .. Len(driver.tasks) : driver.tasks[j] = "reading"}

\* C29: the source files are processed in consecutive chunks of at most
\* chunk_size files: never more than chunk_size extractions exist or are in
\* flight, the chunk being extracted starts at a multiple of chunk_size and
\* holds the files that follow, and while an extraction of a chunk exists
\* every file of the chunks before it has been extracted and handled: the
\* code files yielded are those of all extractable files before the chunk.
C29_BoundedChunks ==
    /\ Len(driver.tasks) <= chunk_size
    /\ Cardinality(InFlight) <= chunk_size
    /\ driver.pc = "gather" =>
           /\ driver.i % chunk_size = 0
           /\ driver.i < Len(driver.source_files)
           /\ Len(driver.tasks) =
                  (IF Len(driver.source_files) - driver.i < chunk_size
                   THEN Len(driver.source_files) - driver.i ELSE chunk_size)
           /\ YieldedPaths = ExtractablePaths(driver.source_files, driver.i)
    /\ driver.pc # "gather" => InFlight = {}

\* an extraction of the second chunk is in flight after a full first chunk
\* gave a code file
C29_Witness ==
    /\ driver.pc = "gather"
    /\ driver.i = chunk_size
    /\ InFlight # {}
    /\ Len(YieldedPaths) >= 1

SourcePaths == [n \in 1 .. Len(driver.source_files) |-> driver.source_files[n].file_path]

\* C30: once the generator has yielded anything, the first node yielded is
\* the Repository of the root and no other node is a Repository; the code
\* files yielded follow the order of the source-file list, none is yielded
\* twice, and each has its part_of set to the Repository node yielded first.
C30_RepositoryFirst ==
    /\ driver.pc \notin {"off", "start"} =>
           /\ Len(driver.yielded) >= 1
           /\ driver.yielded[1] = Repository(driver.repo_path)
    /\ driver.pc = "start" => driver.yielded = <<>>
    /\ \A j \in 2 .. Len(driver.yielded) :
           /\ driver.yielded[j].node = "CodeFile"
           /\ driver.yielded[j].part_of = Some(driver.yielded[1])
           /\ driver.yielded[j].unit # None
           /\ driver.yielded[j].unit[1].file_path = driver.yielded[j].path
    /\ IsSubsequence(YieldedPaths, SourcePaths)
    /\ \A j, k \in 1 .. Len(YieldedPaths) : YieldedPaths[j] = YieldedPaths[k] => j = k

\* the generator has ended after yielding the Repository and the code files
\* of two chunks
C30_Witness ==
    /\ driver.pc = "done"
    /\ Len(driver.yielded) = 1 + MaxFiles
    /\ driver.yielded[1].node = "Repository"
    /\ driver.yielded[Len(driver.yielded)].part_of = Some(driver.yielded[1])

====
